---- MODULE Spec2Model ----
(***************************************************************************)
(* A model of object.hpp: the reference-counted control block, the strong, *)
(* weak and string handles over it, and the tag-packed atomic cell.        *)
(*                                                                         *)
(* Every step of the model is one access to shared memory (one operation   *)
(* on a std::atomic, one run of a payload destructor, one delete) together *)
(* with the thread-local work around it.                                   *)
(***************************************************************************)
EXTENDS Integers, FiniteSets, Sequences, TLC

\* ------------------------------------------------------------------ bounds
NumHolders == 2        \* control blocks that can be allocated
NumThreads == 2        \* threads
MaxLen     == 3        \* longest array a holder is created with
MaxText    == 2        \* longest text a string is constructed from
MaxCalls   == 3        \* calls of one stateful callable
SizeMod    == 16       \* std::size_t wraps at SizeMod (at 2^64, which is out
                       \* of the range of the checker's integers)
MaxRaw     == 1        \* raw pointers detached by release() at one time
CounterMod == 8        \* counters wrap at CounterMod (counter_t wraps at 2^32,
                       \* which is out of the range of the checker's integers)

\* ------------------------------------------------------- program constants
NULL       == 0            \* nullptr

Holders == 1..NumHolders
Threads == 1..NumThreads
\* The handle variables of the program under analysis: two strong handles,
\* two weak handles and two string handles, each usable by every thread.
Slots   == {1, 2}
WSlots  == {1, 2}
SSlots  == {1, 2}
Handle  == Holders \cup {NULL}
\* The aliasing variables of the program, and one that is not constructed
ASlots  == {1, 2}
\* The cobject variables
CSlots  == {1, 2}
NoAlias == [k |-> "none", T |-> "void", h |-> NULL, p |-> NULL]

VARIABLES
    refcount,   \* refcount[h]: placeholder::refcount, the strong count
    weak,       \* weak[h]: placeholder::weak.refcount, the weak count
    mem,        \* mem[h]: "unused" | "live" | "freed", the allocation
    payload,    \* payload[h]: "none" | "alive" | "destroyed"
    dtors,      \* dtors[h]: how many times the payload destructor has run
    frees,      \* frees[h]: how many times the allocation was deleted
    obj,        \* obj[i]: object::p of strong handle variable i
    wk,         \* wk[w]: object__weak::p of weak handle variable w
    str,        \* str[s]: the holder object__str::p points into (storage())
    raw,        \* raw[h]: raw pointers detached by release(), not re-adopted
    pc,         \* pc[t]: where thread t stands
    reg,        \* reg[t]: the locals of thread t's running operation
    cell,       \* the object__atomic: "none" | "live" | "destroyed"
    storage,    \* object__atomic::storage, the word: handle bits | tag
    locks,      \* locks[t]: thread t has acquired the cell's lock
    parked,     \* the threads blocked inside a std::atomic wait()
    shutdown,   \* the variable the predicate of wait(pred) reads
    prog,       \* prog[t]: how far thread t is in its function
    vtype,      \* vtype[h]: the T of the holder<T> allocated at h
    elems,      \* elems[h]: the elements of the array in holder h, each
                \* "none" | "alive" | "destroyed"; the elements of a
                \* character array are its characters
    seed,       \* seed[h]: the captured seed of the lambda in holder h
    gref,       \* the object::fn<R(&)(Args...)> g: its members f and o
    alias,      \* alias[a]: aliasing variable a, an object__ptr<T> or an
                \* object__ref<T>: its handle part h (object::p) and its
                \* interior pointer p
    cobj        \* cobj[c]: the member p of cobject c when its type is
                \* cobject_handle, NULL when the cobject is initialised

vars == <<refcount, weak, mem, payload, dtors, frees, obj, wk, str, raw, pc, reg,
          cell, storage, locks, parked, shutdown, prog, vtype, elems, seed, gref,
          alias, cobj>>

heap    == <<refcount, weak, mem, payload, dtors, frees>>
handles == <<obj, wk, str, raw>>
cellv   == <<cell, storage, locks, parked>>
more    == <<seed, gref, alias, cobj>>
ext     == <<elems, more>>
user    == <<shutdown, prog, vtype, ext>>

\* The locals of an operation: p the control block of its local object (obj,
\* a temporary), own whether that local object owns a reference by now, r the
\* local r of xref, dst the strong variable that receives the result (or is
\* the expected of a compare_exchange), w the weak variable it reads, op the
\* operation's name, err the exception thrown, v the local v of the cell's
\* functions, h the word store_and_unlock is called with, des the parameter
\* desired, ok the boolean result, ty the ValueType of a cast, form whether
\* the cast is called with a pointer or a reference, res the pointer the cast
\* produced, ret the value a call of a callable returned.
NoReg == [p |-> NULL, own |-> FALSE, r |-> 0, dst |-> 0, w |-> 0, op |-> "",
          err |-> "", v |-> 0, h |-> 0, des |-> NULL, ok |-> FALSE,
          ty |-> "", form |-> "", res |-> NULL, ret |-> 0, a |-> 0]

\* --------------------------------------------------- refcounted (pure part)
\* fetch_add(1) + 1 and fetch_sub(1) - 1 on an unsigned int
addref(c)  == (c + 1) % CounterMod
release(c) == (c + CounterMod - 1) % CounterMod

\* A strong or weak variable that a running operation reads or will write is
\* not touched by another thread (operations on one handle instance are not
\* thread-safe).
Busy(i)  == \E t \in Threads : pc[t] # "idle" /\ reg[t].dst = i
WBusy(w) == \E t \in Threads : pc[t] # "idle" /\ reg[t].w = w

Idle(t) == pc[t] = "idle"

Goto(t, label, r) == /\ pc'  = [pc  EXCEPT ![t] = label]
                     /\ reg' = [reg EXCEPT ![t] = r]

\* The local object is gone; the parameter desired, if it still owns a
\* reference, is destroyed next, and the operation is over.
Finish(t) ==
    IF reg[t].des = NULL
    THEN Goto(t, "idle", NoReg)
    ELSE Goto(t, "dtor", [NoReg EXCEPT !.p = reg[t].des, !.own = TRUE])

\* Mutant of AfterRelease: destroys when the count is still 1.
AfterReleaseEarly(t, p) ==
    IF release(refcount[p]) <= 1
    THEN Goto(t, "destroy", [NoReg EXCEPT !.p = p, !.des = reg[t].des])
    ELSE Finish(t)

\* ~object() on a handle value p that is not NULL and whose variable is gone:
\* p->release() == 0 ? p->destroy() : nothing.
AfterRelease(t, p) ==
    IF release(refcount[p]) = 0
    THEN Goto(t, "destroy", [NoReg EXCEPT !.p = p, !.des = reg[t].des])
    ELSE Finish(t)

Init ==
    /\ refcount = [h \in Holders |-> 0]
    /\ weak     = [h \in Holders |-> 0]
    /\ mem      = [h \in Holders |-> "unused"]
    /\ payload  = [h \in Holders |-> "none"]
    /\ dtors    = [h \in Holders |-> 0]
    /\ frees    = [h \in Holders |-> 0]
    /\ obj      = [i \in Slots  |-> NULL]
    /\ wk       = [w \in WSlots |-> NULL]
    /\ str      = [s \in SSlots |-> NULL]
    /\ raw      = [h \in Holders |-> 0]
    /\ pc       = [t \in Threads |-> "idle"]
    /\ reg      = [t \in Threads |-> NoReg]
    /\ cell     = "none"
    /\ storage  = 0
    /\ locks    = [t \in Threads |-> FALSE]
    /\ parked   = {}
    /\ shutdown = FALSE
    /\ prog     = [t \in Threads |-> 0]
    /\ vtype    = [h \in Holders |-> "void"]
    /\ elems    = [h \in Holders |-> <<>>]
    /\ seed     = [h \in Holders |-> 0]
    /\ gref     = [f |-> "none", o |-> 0]
    /\ alias    = [a \in ASlots |-> NoAlias]
    /\ cobj     = [c \in CSlots |-> NULL]

\* holder<T>::create: new holder, refcount = 1, weak.refcount = 1, payload
\* constructed. The allocator hands out the lowest unused block.
Fresh(h) == mem[h] = "unused" /\ \A g \in Holders : g < h => mem[g] # "unused"

create(h) ==
    /\ refcount' = [refcount EXCEPT ![h] = 1]
    /\ weak'     = [weak     EXCEPT ![h] = 1]
    /\ mem'      = [mem      EXCEPT ![h] = "live"]
    /\ payload'  = [payload  EXCEPT ![h] = "alive"]
    /\ UNCHANGED <<dtors, frees>>

\* object(ValueType&&) / object(in_place_type, args...)
emplace(t, i, T) ==
    /\ Idle(t) /\ ~Busy(i) /\ obj[i] = NULL
    /\ \E h \in Holders : /\ Fresh(h) /\ create(h)
                          /\ obj' = [obj EXCEPT ![i] = h]
                          /\ vtype' = [vtype EXCEPT ![h] = T]
    /\ UNCHANGED <<wk, str, raw, pc, reg, cellv>>
    /\ UNCHANGED <<shutdown, prog, ext>>

\* object(tracker{})
Make(t, i) == emplace(t, i, "tracker")

\* Mutant of Copy: the copy does not count itself.
CopyNoAddref(t, i, j) ==
    /\ Idle(t) /\ i # j /\ ~Busy(i) /\ ~Busy(j) /\ obj[j] = NULL
    /\ obj' = [obj EXCEPT ![j] = obj[i]]
    /\ UNCHANGED <<heap, wk, str, raw, pc, reg, cellv>>
    /\ UNCHANGED user

\* object(const object&): p(obj.p), if (p) p->addref()
Copy(t, i, j) ==
    /\ Idle(t) /\ i # j /\ ~Busy(i) /\ ~Busy(j) /\ obj[j] = NULL
    /\ obj' = [obj EXCEPT ![j] = obj[i]]
    /\ refcount' = IF obj[i] # NULL
                   THEN [refcount EXCEPT ![obj[i]] = addref(@)] ELSE refcount
    /\ UNCHANGED <<weak, mem, payload, dtors, frees, wk, str, raw, pc, reg, cellv>>
    /\ UNCHANGED user

\* object(object&&): p(obj.p), obj.p = nullptr
Move(t, i, j) ==
    /\ Idle(t) /\ i # j /\ ~Busy(i) /\ ~Busy(j) /\ obj[j] = NULL
    /\ obj' = [obj EXCEPT ![j] = obj[i], ![i] = NULL]
    /\ UNCHANGED <<heap, wk, str, raw, pc, reg, cellv>>
    /\ UNCHANGED user

\* ~object(): if (p && p->release() == 0) p->destroy()
Destroy(t, i) ==
    /\ Idle(t) /\ ~Busy(i)
    /\ obj' = [obj EXCEPT ![i] = NULL]
    /\ IF obj[i] = NULL
       THEN UNCHANGED <<refcount, pc, reg>>
       ELSE /\ refcount' = [refcount EXCEPT ![obj[i]] = release(@)]
            /\ AfterRelease(t, obj[i])
    /\ UNCHANGED <<weak, mem, payload, dtors, frees, wk, str, raw, cellv>>
    /\ UNCHANGED user

\* The destructor of a temporary object that owns reg[t].p (the temporary of
\* operator=, of ~object__str, ...).
TempDtor(t) ==
    /\ pc[t] = "dtor"
    /\ refcount' = [refcount EXCEPT ![reg[t].p] = release(@)]
    /\ AfterRelease(t, reg[t].p)
    /\ UNCHANGED <<weak, mem, payload, dtors, frees, handles, cellv>>
    /\ UNCHANGED user

\* The holders with a trailing or a fixed array: holder<T[]>, holder<T[N]>
\* and holder<T, U[]>
ArrayKinds == {"tracker[]", "tracker[N]", "fam"}

\* holder::destroy, first half: destruct() runs the payload's destructor
HolderDestroy(t) ==
    /\ pc[t] = "destroy" /\ vtype[reg[t].p] \notin ArrayKinds
    /\ payload' = [payload EXCEPT ![reg[t].p] = "destroyed"]
    /\ dtors'   = [dtors   EXCEPT ![reg[t].p] = @ + 1]
    /\ Goto(t, "placeholder_destroy", reg[t])
    /\ UNCHANGED <<refcount, weak, mem, frees, handles, cellv>>
    /\ UNCHANGED user

\* The threads blocked in p->refcount.wait()
RefWaiters(p) == {u \in Threads : pc[u] = "wue_wait" /\ reg[u].p = p}

\* Mutant of PlaceholderDestroy: deletes whatever weak.release() returns.
PlaceholderDestroyAlways(t) ==
    /\ pc[t] = "placeholder_destroy"
    /\ parked' = parked \ RefWaiters(reg[t].p)
    /\ weak' = [weak EXCEPT ![reg[t].p] = release(@)]
    /\ Goto(t, "delete", reg[t])
    /\ UNCHANGED <<refcount, mem, payload, dtors, frees, handles>>
    /\ UNCHANGED <<cell, storage, locks>>
    /\ UNCHANGED user

\* Mutant of PlaceholderDestroy: the waiters on the strong count are not
\* notified.
PlaceholderDestroyNoNotify(t) ==
    /\ pc[t] = "placeholder_destroy"
    /\ weak' = [weak EXCEPT ![reg[t].p] = release(@)]
    /\ IF release(weak[reg[t].p]) # 0
       THEN Finish(t)
       ELSE Goto(t, "delete", reg[t])
    /\ UNCHANGED <<refcount, mem, payload, dtors, frees, handles, cellv>>
    /\ UNCHANGED user

\* placeholder::destroy: refcount.notify_all(); if (weak.release() != 0)
\* return; delete this
PlaceholderDestroy(t) ==
    /\ pc[t] = "placeholder_destroy"
    /\ parked' = parked \ RefWaiters(reg[t].p)
    /\ weak' = [weak EXCEPT ![reg[t].p] = release(@)]
    /\ IF release(weak[reg[t].p]) # 0
       THEN Finish(t)
       ELSE Goto(t, "delete", reg[t])
    /\ UNCHANGED <<refcount, mem, payload, dtors, frees, handles>>
    /\ UNCHANGED <<cell, storage, locks>>
    /\ UNCHANGED user

\* delete this / delete p
Delete(t) ==
    /\ pc[t] = "delete"
    /\ mem'   = [mem   EXCEPT ![reg[t].p] = "freed"]
    /\ frees' = [frees EXCEPT ![reg[t].p] = @ + 1]
    /\ Finish(t)
    /\ UNCHANGED <<refcount, weak, payload, dtors, handles, cellv>>
    /\ UNCHANGED user

\* The old value of an assigned variable goes to a temporary, whose
\* destructor runs next.
ThenTemp(t, old) ==
    IF old = NULL THEN UNCHANGED <<pc, reg>>
    ELSE Goto(t, "dtor", [NoReg EXCEPT !.p = old, !.own = TRUE])

\* operator=(const object&): if (p != obj.p) object(obj).swap(*this)
CopyAssign(t, d, s) ==
    /\ Idle(t) /\ ~Busy(d) /\ ~Busy(s)
    /\ IF obj[d] = obj[s]
       THEN UNCHANGED <<obj, refcount, pc, reg>>
       ELSE /\ obj' = [obj EXCEPT ![d] = obj[s]]
            /\ refcount' = IF obj[s] # NULL
                           THEN [refcount EXCEPT ![obj[s]] = addref(@)]
                           ELSE refcount
            /\ ThenTemp(t, obj[d])
    /\ UNCHANGED <<weak, mem, payload, dtors, frees, wk, str, raw, cellv>>
    /\ UNCHANGED user

\* Mutant of MoveAssign: object(std::move(obj)).swap(*this) without the
\* comparison of the two pointers.
MoveAssignNoGuard(t, d, s) ==
    /\ Idle(t) /\ ~Busy(d) /\ ~Busy(s)
    /\ LET moved == [obj EXCEPT ![s] = NULL]
       IN  /\ obj' = [moved EXCEPT ![d] = obj[s]]
           /\ ThenTemp(t, moved[d])
    /\ UNCHANGED <<heap, wk, str, raw, cellv>>
    /\ UNCHANGED user

\* operator=(object&&): if (p != obj.p) object(std::move(obj)).swap(*this)
MoveAssign(t, d, s) ==
    /\ Idle(t) /\ ~Busy(d) /\ ~Busy(s)
    /\ IF obj[d] = obj[s]
       THEN UNCHANGED <<obj, pc, reg>>
       ELSE /\ obj' = [obj EXCEPT ![d] = obj[s], ![s] = NULL]
            /\ ThenTemp(t, obj[d])
    /\ UNCHANGED <<heap, wk, str, raw, cellv>>
    /\ UNCHANGED user

\* swap(object&): std::swap(p, obj.p)
Swap(t, i, j) ==
    /\ Idle(t) /\ i < j /\ ~Busy(i) /\ ~Busy(j) /\ obj[i] # obj[j]
    /\ obj' = [obj EXCEPT ![i] = obj[j], ![j] = obj[i]]
    /\ UNCHANGED <<heap, wk, str, raw, pc, reg, cellv>>
    /\ UNCHANGED user

RECURSIVE SumUpTo(_, _)
SumUpTo(f, n) == IF n = 0 THEN 0 ELSE f[n] + SumUpTo(f, n - 1)
RawCount == SumUpTo(raw, NumHolders)

\* release(): return std::exchange(p, nullptr)
Release(t, i) ==
    /\ Idle(t) /\ ~Busy(i) /\ obj[i] # NULL
    /\ RawCount < MaxRaw
    /\ obj' = [obj EXCEPT ![i] = NULL]
    /\ raw' = [raw EXCEPT ![obj[i]] = @ + 1]
    /\ UNCHANGED <<heap, wk, str, pc, reg, cellv>>
    /\ UNCHANGED user

\* Mutant of Adopt: the adopting handle counts itself, as a copy does.
AdoptAddref(t, i) ==
    /\ Idle(t) /\ ~Busy(i) /\ obj[i] = NULL
    /\ \E h \in Holders :
          /\ raw[h] > 0
          /\ raw' = [raw EXCEPT ![h] = @ - 1]
          /\ obj' = [obj EXCEPT ![i] = h]
          /\ refcount' = [refcount EXCEPT ![h] = addref(@)]
    /\ UNCHANGED <<weak, mem, payload, dtors, frees, wk, str, pc, reg, cellv>>
    /\ UNCHANGED user

\* explicit object(handle p): p(p), the raw pointer is adopted as it is
Adopt(t, i) ==
    /\ Idle(t) /\ ~Busy(i) /\ obj[i] = NULL
    /\ \E h \in Holders :
          /\ raw[h] > 0
          /\ raw' = [raw EXCEPT ![h] = @ - 1]
          /\ obj' = [obj EXCEPT ![i] = h]
    /\ UNCHANGED <<heap, wk, str, pc, reg, cellv>>
    /\ UNCHANGED user

\* ------------------------------------------------------------ object__weak
\* expired(): !p || p->count() <= 0
expired(w) == wk[w] = NULL \/ refcount[wk[w]] <= 0

\* object__weak(const object& obj): p(obj.p), if (p) p->weak.addref()
WeakFromObject(t, w, i) ==
    /\ Idle(t) /\ ~WBusy(w) /\ ~Busy(i) /\ wk[w] = NULL
    /\ wk' = [wk EXCEPT ![w] = obj[i]]
    /\ weak' = IF obj[i] # NULL THEN [weak EXCEPT ![obj[i]] = addref(@)] ELSE weak
    /\ UNCHANGED <<refcount, mem, payload, dtors, frees, obj, str, raw, pc, reg, cellv>>
    /\ UNCHANGED user

\* object__weak(const object__weak& w): p(w.p), if (p) p->weak.addref()
WeakCopy(t, w, x) ==
    /\ Idle(t) /\ w # x /\ ~WBusy(w) /\ ~WBusy(x) /\ wk[x] = NULL
    /\ wk' = [wk EXCEPT ![x] = wk[w]]
    /\ weak' = IF wk[w] # NULL THEN [weak EXCEPT ![wk[w]] = addref(@)] ELSE weak
    /\ UNCHANGED <<refcount, mem, payload, dtors, frees, obj, str, raw, pc, reg, cellv>>
    /\ UNCHANGED user

\* ~object__weak(): if (p && p->weak.release() == 0) delete p
WeakDestroy(t, w) ==
    /\ Idle(t) /\ ~WBusy(w)
    /\ wk' = [wk EXCEPT ![w] = NULL]
    /\ IF wk[w] = NULL
       THEN UNCHANGED <<weak, pc, reg>>
       ELSE /\ weak' = [weak EXCEPT ![wk[w]] = release(@)]
            /\ IF release(weak[wk[w]]) = 0
               THEN Goto(t, "delete", [NoReg EXCEPT !.p = wk[w]])
               ELSE Goto(t, "idle", NoReg)
    /\ UNCHANGED <<refcount, mem, payload, dtors, frees, obj, str, raw, cellv>>
    /\ UNCHANGED user

\* lock(): object(p && p->xref() ? p : nullptr), and operator object(), which
\* starts with lock(). The first step is xref's
\*     counter_t r = refcount.load(relaxed)
\* op is "lock" or "object".
WeakLock(t, w, j, op) ==
    /\ Idle(t) /\ ~WBusy(w) /\ ~Busy(j) /\ obj[j] = NULL
    /\ IF wk[w] = NULL
       THEN Goto(t, IF op = "lock" THEN "lock_ret" ELSE "object_check",
                 [NoReg EXCEPT !.dst = j, !.w = w, !.op = op])
       ELSE Goto(t, "xref",
                 [NoReg EXCEPT !.p = wk[w], !.r = refcount[wk[w]],
                               !.dst = j, !.w = w, !.op = op])
    /\ UNCHANGED <<heap, handles, cellv>>
    /\ UNCHANGED user

\* wait_until_expired(): if (!p) return
WaitExpired(t, w) ==
    /\ Idle(t) /\ ~WBusy(w)
    /\ Goto(t, IF wk[w] = NULL THEN "wue_ret" ELSE "wue_load",
             [NoReg EXCEPT !.p = wk[w], !.w = w, !.op = "wue"])
    /\ UNCHANGED <<heap, handles, cellv>>
    /\ UNCHANGED user

\* wait_until_expired(): auto c = p->refcount.load(relaxed);
\* if (c <= 0) break
WueLoad(t) ==
    /\ pc[t] = "wue_load"
    /\ Goto(t, IF refcount[reg[t].p] <= 0 THEN "wue_ret" ELSE "wue_wait",
             [reg[t] EXCEPT !.r = refcount[reg[t].p]])
    /\ UNCHANGED <<heap, handles, cellv>>
    /\ UNCHANGED user

\* wait_until_expired(): p->refcount.wait(c, relaxed) returns when the
\* counter is not c, and blocks the thread while it is.
WueWait(t) ==
    /\ pc[t] = "wue_wait" /\ t \notin parked
    /\ IF refcount[reg[t].p] # reg[t].r
       THEN Goto(t, "wue_load", reg[t]) /\ UNCHANGED parked
       ELSE parked' = parked \cup {t} /\ UNCHANGED <<pc, reg>>
    /\ UNCHANGED <<heap, handles, cell, storage, locks>>
    /\ UNCHANGED user

\* wait_until_expired() returns
WueReturn(t) ==
    /\ pc[t] = "wue_ret"
    /\ Goto(t, "idle", NoReg)
    /\ UNCHANGED <<heap, handles, cellv>>
    /\ UNCHANGED user

\* Mutant of XrefCas: an unconditional fetch_add in place of the loop.
XrefFetchAdd(t) ==
    /\ pc[t] = "xref"
    /\ refcount' = [refcount EXCEPT ![reg[t].p] = addref(@)]
    /\ Goto(t, IF reg[t].op = "lock" THEN "lock_ret" ELSE "object_check",
             [reg[t] EXCEPT !.r = addref(refcount[reg[t].p]), !.own = TRUE])
    /\ UNCHANGED <<weak, mem, payload, dtors, frees, handles, cellv>>
    /\ UNCHANGED user

\* xref's loop: while (r != 0 && !refcount.compare_exchange_weak(r, r + 1));
\* return r == 0 ? 0 : r + 1. A failed compare_exchange loads the counter
\* into r. When xref returns 0, lock() makes object(nullptr).
XrefCas(t) ==
    /\ pc[t] = "xref"
    /\ LET p    == reg[t].p
           next == IF reg[t].op = "lock" THEN "lock_ret" ELSE "object_check"
       IN  IF reg[t].r = 0
           THEN /\ Goto(t, next, [reg[t] EXCEPT !.p = NULL])
                /\ UNCHANGED refcount
           ELSE IF refcount[p] = reg[t].r
           THEN /\ refcount' = [refcount EXCEPT ![p] = (reg[t].r + 1) % CounterMod]
                /\ Goto(t, next, [reg[t] EXCEPT !.r = (reg[t].r + 1) % CounterMod,
                                                !.own = TRUE])
           ELSE /\ Goto(t, "xref", [reg[t] EXCEPT !.r = refcount[p]])
                /\ UNCHANGED refcount
    /\ UNCHANGED <<weak, mem, payload, dtors, frees, handles, cellv>>
    /\ UNCHANGED user

\* Mutant of ObjectCheck: the null result is returned, nothing is thrown.
ObjectCheckNoThrow(t) ==
    /\ pc[t] = "object_check"
    /\ Goto(t, "lock_ret", reg[t])
    /\ UNCHANGED <<heap, handles, cellv>>
    /\ UNCHANGED user

\* operator object(): object obj = lock(); if (!obj) throw bad_weak_object{};
ObjectCheck(t) ==
    /\ pc[t] = "object_check"
    /\ IF reg[t].p = NULL
       THEN Goto(t, "thrown", [reg[t] EXCEPT !.err = "bad_weak_object"])
       ELSE Goto(t, "lock_ret", reg[t])
    /\ UNCHANGED <<heap, handles, cellv>>
    /\ UNCHANGED user

\* lock() / operator object() return: the result becomes variable dst
LockReturn(t) ==
    /\ pc[t] = "lock_ret"
    /\ obj' = [obj EXCEPT ![reg[t].dst] = reg[t].p]
    /\ Goto(t, "idle", NoReg)
    /\ UNCHANGED <<heap, wk, str, raw, cellv>>
    /\ UNCHANGED user

\* the caller catches the exception
Caught(t) ==
    /\ pc[t] = "thrown"
    /\ Goto(t, "idle", NoReg)
    /\ UNCHANGED <<heap, handles, cellv>>
    /\ UNCHANGED user

\* ------------------------------------------------------------------- casts
\* The payload types of the program: a class derived publicly from a base
\* class, the base class itself, and an unrelated type. Casts are also asked
\* for a type that no holder has, and for void.
PayloadTypes == {"derived", "tracker", "int"}
CastTypes    == {"derived", "tracker", "int", "float", "void"}

\* The callables a holder<F, R(Args...)> is created with: a lambda that
\* captures a seed and counts it up, and a function without state
Callables == {"lambda", "echo"}

\* The T of the holder<T> that the holder at h is or derives from: a
\* holder<T, U[]> is a holder<T>; the head of the fams here is a tracker.
Held(h) == IF vtype[h] = "fam" THEN "tracker" ELSE vtype[h]

\* holder<T>::type(): type_id<T>(); holder<R(Args...)>::type():
\* type_id<R(Args...)>(), the same for every F
TypeOf(h) == IF vtype[h] \in Callables THEN "int(int)" ELSE Held(h)

\* std::is_base_of: derived is a struct derived from tracker
IsBaseOf(B, D) == B = "tracker" /\ D = "derived"

\* object::type(): p ? p->type() : null_t(), where null_t() is type_id<void>()
type(p) == IF p = NULL THEN "void" ELSE TypeOf(p)

\* Mutant of equals: handles are compared by what their payloads are; the
\* payloads of one type are constructed from equal values.
equal_payload(i, j) == type(obj[i]) = type(obj[j])

\* object::operator==, obj[i] == obj[j]: p == obj.p
equals(i, j) == obj[i] = obj[j]

\* What unsafe_object_cast computes from a null pointer is not defined: the
\* address of the value of a holder at address 0.
Wild == NumHolders + 1

\* unsafe_object_cast<ValueType>(object*): the address of the holder's value,
\* whatever its type
unsafe_object_cast(p, U) == IF p = NULL THEN {NULL, Wild} ELSE {p}

\* Mutant of object_cast: a base class of the payload's type is accepted.
object_cast_base(p, U) ==
    IF p # NULL /\ (type(p) = U \/ IsBaseOf(U, type(p)))
    THEN unsafe_object_cast(p, U) ELSE {NULL}

\* object_cast<ValueType>(object*): obj->p && obj->p->type() ==
\* type_id<ValueType>() ? unsafe_object_cast<ValueType>(obj) : nullptr
object_cast(p, U) ==
    IF p # NULL /\ type(p) = U THEN unsafe_object_cast(p, U) ELSE {NULL}

\* catch (ValueType* p) of the T* that holder<T>::throws() throws: a handler
\* for U* matches T* when U is T, a public base class of T, or void.
Catches(U, T) == U = T \/ IsBaseOf(U, T) \/ U = "void"

\* Mutant of polymorphic_object_cast: only the payload's own type is caught.
polymorphic_exact(p, U) == IF p # NULL /\ Held(p) = U THEN {p} ELSE {NULL}

\* polymorphic_object_cast<ValueType>(object*):
\* try { if (obj->p) obj->p->throws(); } catch (ValueType* p) { return p; }
\* catch (...) {} return nullptr
polymorphic_object_cast(p, U) ==
    IF p # NULL /\ Catches(U, Held(p)) THEN {p} ELSE {NULL}

Casts == {"unsafe_object_cast", "object_cast", "polymorphic_object_cast"}

\* The pointers the pointer form of a cast can return
CastResults(cast, p, U) ==
    CASE cast = "unsafe_object_cast" -> unsafe_object_cast(p, U)
      [] cast = "object_cast" -> object_cast(p, U)
      [] cast = "polymorphic_object_cast" -> polymorphic_object_cast(p, U)

\* Mutant of CastForm: the reference form returns *p without the test.
CastFormNoThrow(t, r, q) == Goto(t, "cast_ret", [r EXCEPT !.res = q])

\* CAST(cast): the pointer form returns p; the reference form is
\* if (auto p = cast<ValueType>(std::addressof(obj))) return *p;
\* throw bad_object_cast{}
CastForm(t, r, q) ==
    IF r.form = "ref" /\ q = NULL
    THEN Goto(t, "thrown", [r EXCEPT !.err = "bad_object_cast"])
    ELSE Goto(t, "cast_ret", [r EXCEPT !.res = q])

\* The casts that compile: there is no holder<void> and no reference to
\* void, and a handler for void* is well-formed.
Instantiable(cast, U, form) ==
    U = "void" => cast = "polymorphic_object_cast" /\ form = "ptr"

\* cast<U>(&obj[i]) and cast<U>(obj[i])
Cast(t, i, U, cast, form) ==
    /\ Idle(t) /\ ~Busy(i) /\ Instantiable(cast, U, form)
    /\ \E q \in CastResults(cast, obj[i], U) :
          CastForm(t, [NoReg EXCEPT !.dst = i, !.op = cast, !.ty = U,
                                    !.form = form], q)
    /\ UNCHANGED <<heap, handles, cellv>>
    /\ UNCHANGED user

\* the caller uses the pointer or the reference the cast returned
CastReturn(t) ==
    /\ pc[t] = "cast_ret"
    /\ Goto(t, "idle", NoReg)
    /\ UNCHANGED <<heap, handles, cellv>>
    /\ UNCHANGED user

\* ------------------------------------------------------------- object__str
\* The characters: CharT{} and one that is not CharT{}
Chars == {"0", "c"}
Texts == UNION {[1..n -> Chars] : n \in 0..MaxText}

\* object__str(std::basic_string_view s), and through it object__str(const
\* CharT*) and object__str(const std::basic_string&); object__str(count, ch):
\* object__vec<CharT> v(-(size + 1)); the text is copied (filled in);
\* v.back() = CharT{}; p = v.data(); (void)v.release()
StrCtor(t, s, text) ==
    /\ Idle(t) /\ str[s] = NULL
    /\ \E h \in Holders : /\ Fresh(h) /\ create(h)
                          /\ str' = [str EXCEPT ![s] = h]
                          /\ vtype' = [vtype EXCEPT ![h] = "char[]"]
                          /\ elems' = [elems EXCEPT ![h] = Append(text, "0")]
    /\ UNCHANGED <<obj, wk, raw, pc, reg, cellv>>
    /\ UNCHANGED <<shutdown, prog, more>>

\* object__str(1, 'c')
StrMake(t, s) == StrCtor(t, s, <<"c">>)

\* object__str(const object__str& s): p(s.p) { (void)object().release(); }
\* object(): if (p) (v.p = storage())->addref()
StrCopy(t, s, d) ==
    /\ Idle(t) /\ s # d /\ str[d] = NULL
    /\ str' = [str EXCEPT ![d] = str[s]]
    /\ refcount' = IF str[s] # NULL
                   THEN [refcount EXCEPT ![str[s]] = addref(@)] ELSE refcount
    /\ UNCHANGED <<weak, mem, payload, dtors, frees, obj, wk, raw, pc, reg, cellv>>
    /\ UNCHANGED user

\* object__str(object__str&& s): p(s.p) { s.p = nullptr; }
StrMove(t, s, d) ==
    /\ Idle(t) /\ s # d /\ str[d] = NULL
    /\ str' = [str EXCEPT ![d] = str[s], ![s] = NULL]
    /\ UNCHANGED <<heap, obj, wk, raw, pc, reg, cellv>>
    /\ UNCHANGED user

\* ~object__str(): if (p) (void)(class object)((object::handle)storage())
StrDestroy(t, s) ==
    /\ Idle(t)
    /\ str' = [str EXCEPT ![s] = NULL]
    /\ IF str[s] = NULL
       THEN UNCHANGED <<refcount, pc, reg>>
       ELSE /\ refcount' = [refcount EXCEPT ![str[s]] = release(@)]
            /\ AfterRelease(t, str[s])
    /\ UNCHANGED <<weak, mem, payload, dtors, frees, obj, wk, raw, cellv>>
    /\ UNCHANGED user

\* swap(object__str& s): std::swap(p, s.p)
StrSwap(t, s, d) ==
    /\ Idle(t) /\ s < d /\ str[s] # str[d]
    /\ str' = [str EXCEPT ![s] = str[d], ![d] = str[s]]
    /\ UNCHANGED <<heap, obj, wk, raw, pc, reg, cellv>>
    /\ UNCHANGED user

\* operator=(const object__str& s): if (p != s.p) object__str(s).swap(*this)
StrCopyAssign(t, d, s) ==
    /\ Idle(t)
    /\ IF str[d] = str[s]
       THEN UNCHANGED <<str, refcount, pc, reg>>
       ELSE /\ str' = [str EXCEPT ![d] = str[s]]
            /\ refcount' = IF str[s] # NULL
                           THEN [refcount EXCEPT ![str[s]] = addref(@)]
                           ELSE refcount
            /\ ThenTemp(t, str[d])
    /\ UNCHANGED <<weak, mem, payload, dtors, frees, obj, wk, raw, cellv>>
    /\ UNCHANGED user

\* operator=(object__str&& s): if (p != s.p) object__str(std::move(s)).swap(s)
\* The temporary takes s.p and leaves s.p null; swap(s) exchanges the
\* temporary with s again; the temporary's destructor runs on what it holds.
\* Then return *this.
StrMoveAssign(t, d, s) ==
    /\ Idle(t)
    /\ IF str[d] = str[s]
       THEN /\ Goto(t, "str_ret", [NoReg EXCEPT !.op = "str_move_assign"])
            /\ UNCHANGED str
       ELSE LET tmp1   == str[s]                          \* object__str(std::move(s))
                moved  == [str EXCEPT ![s] = NULL]
                tmp2   == moved[s]                        \* .swap(s)
                after  == [moved EXCEPT ![s] = tmp1]
            IN  /\ str' = after
                /\ IF tmp2 = NULL
                   THEN Goto(t, "str_ret", [NoReg EXCEPT !.op = "str_move_assign"])
                   ELSE ThenTemp(t, tmp2)
    /\ UNCHANGED <<heap, obj, wk, raw, cellv>>
    /\ UNCHANGED user

\* the caller goes on with the reference operator= returned
StrReturn(t) ==
    /\ pc[t] = "str_ret"
    /\ Goto(t, "idle", NoReg)
    /\ UNCHANGED <<heap, handles, cellv>>
    /\ UNCHANGED user

\* o.emplace<CharT[]>(n) on an empty handle, and characters written through
\* the reference it returns: a generic handle to a character array
CharArray(t, i, text) ==
    /\ Idle(t) /\ ~Busy(i) /\ obj[i] = NULL
    /\ \E h \in Holders : /\ Fresh(h) /\ create(h)
                          /\ obj' = [obj EXCEPT ![i] = h]
                          /\ vtype' = [vtype EXCEPT ![h] = "char[]"]
                          /\ elems' = [elems EXCEPT ![h] = text]
    /\ UNCHANGED <<wk, str, raw, pc, reg, cellv>>
    /\ UNCHANGED <<shutdown, prog, more>>

\* object__vec::back() of a handle to holder h: *(data() + size() - 1). Of an
\* array without elements this reads what lies before the array.
back(h) == IF Len(elems[h]) = 0 THEN Chars ELSE {elems[h][Len(elems[h])]}

\* Mutant of StrAccepts: the last character is not looked at.
StrAcceptsAny(p) == {p = NULL \/ vtype[p] = "char[]"}

\* Whether object__str(obj) takes the handle value p: object__vec<CharT> v(obj)
\* throws bad_object_cast if (obj && obj.type() != type_id<T[]>()), and
\* object__str throws it if (!v.empty() && v.back() != CharT{}).
StrAccepts(p) ==
    IF p = NULL THEN {TRUE}
    ELSE IF vtype[p] # "char[]" THEN {FALSE}
    ELSE {c = "0" : c \in back(p)}

\* object__str(const object& obj), rvalue = FALSE: v is a copy of obj, which
\* is destroyed again when the constructor throws, and released into p when
\* it does not. object__str(object&& obj), rvalue = TRUE: v takes obj's
\* pointer by swap; obj.swap(v) gives it back before the throw.
StrFromObject(t, s, i, rvalue) ==
    /\ Idle(t) /\ ~Busy(i) /\ str[s] = NULL
    /\ \E ok \in StrAccepts(obj[i]) :
          IF ok
          THEN /\ str' = [str EXCEPT ![s] = obj[i]]
               /\ obj' = IF rvalue THEN [obj EXCEPT ![i] = NULL] ELSE obj
               /\ refcount' = IF obj[i] # NULL /\ ~rvalue
                              THEN [refcount EXCEPT ![obj[i]] = addref(@)]
                              ELSE refcount
               /\ Goto(t, "str_ret", [NoReg EXCEPT !.op = "str_from_object",
                                                   !.dst = i])
          ELSE /\ Goto(t, "thrown", [NoReg EXCEPT !.op = "str_from_object",
                                     !.dst = i, !.err = "bad_object_cast"])
               /\ UNCHANGED <<str, obj, refcount>>
    /\ UNCHANGED <<weak, mem, payload, dtors, frees, wk, raw, cellv>>
    /\ UNCHANGED user

\* object__str::size(): p ? storage()->length() - 1 : 0, a std::size_t
size(s) == IF str[s] = NULL THEN 0
           ELSE (Len(elems[str[s]]) + SizeMod - 1) % SizeMod

\* s.c_str()[s.size()]: the character at index size() of the array c_str()
\* points to, which for a null handle is the static const CharT null{};
\* "out" when there is no such element in the array.
Terminator(s) ==
    IF str[s] = NULL THEN "0"
    ELSE IF size(s) < Len(elems[str[s]]) THEN elems[str[s]][size(s) + 1]
    ELSE "out"

\* object(): object__vec<CharT> v; if (p) (v.p = storage())->addref(); return v
StrObject(t, s, j) ==
    /\ Idle(t) /\ ~Busy(j) /\ obj[j] = NULL
    /\ obj' = [obj EXCEPT ![j] = str[s]]
    /\ refcount' = IF str[s] # NULL
                   THEN [refcount EXCEPT ![str[s]] = addref(@)] ELSE refcount
    /\ UNCHANGED <<weak, mem, payload, dtors, frees, wk, str, raw, pc, reg, cellv>>
    /\ UNCHANGED user

\* ---------------------------------------------------------- object__atomic
mask      == 3
locked    == 1
waiting   == 2
condition == 3
Align     == 4     \* alignof(placeholder) >= (1 << 2): the two low bits are free

AddrOf(h)   == Align * h             \* reinterpret_cast<storage_t>(h)
TagOf(v)    == v % (mask + 1)        \* v & mask
Bits(v)     == v - TagOf(v)          \* v & ~mask
HandleOf(v) == Bits(v) \div Align    \* reinterpret_cast<handle>(v & ~mask)

CanCall(t) == Idle(t) /\ cell = "live"

\* object__atomic(object obj): storage(obj.release())
CellCtor(t, i) ==
    /\ Idle(t) /\ cell = "none" /\ ~Busy(i)
    /\ storage' = AddrOf(obj[i])
    /\ obj' = [obj EXCEPT ![i] = NULL]
    /\ cell' = "live"
    /\ UNCHANGED <<heap, wk, str, raw, pc, reg, locks, parked>>
    /\ UNCHANGED user

\* Mutant of CellDtor: the cell's reference is not released.
CellDtorLeak(t) ==
    /\ cell = "live"
    /\ \A u \in Threads : Idle(u) /\ ~locks[u]
    /\ cell' = "destroyed"
    /\ UNCHANGED <<heap, handles, pc, reg, storage, locks, parked>>
    /\ UNCHANGED user

\* ~object__atomic(): v = storage.load() & ~mask; (void)object(handle(v)).
\* No thread is inside an operation on the cell or holds its lock.
CellDtor(t) ==
    /\ cell = "live"
    /\ \A u \in Threads : Idle(u) /\ ~locks[u]
    /\ cell' = "destroyed"
    /\ LET p == HandleOf(storage)
       IN  IF p = NULL
           THEN UNCHANGED <<refcount, pc, reg>>
           ELSE /\ refcount' = [refcount EXCEPT ![p] = release(@)]
                /\ AfterRelease(t, p)
    /\ UNCHANGED <<weak, mem, payload, dtors, frees, handles, storage, locks, parked>>
    /\ UNCHANGED user

\* After v = storage.load(): case waiting goes to storage.wait(v), the other
\* cases to their compare_exchange.
LalCase(v) == IF TagOf(v) = waiting THEN "lal_wait" ELSE "lal_switch"

\* lock_and_load: auto v = storage.load(order), and the reload after a wait
LalLoad(t) ==
    /\ pc[t] = "lal_load"
    /\ Goto(t, LalCase(storage), [reg[t] EXCEPT !.v = storage])
    /\ UNCHANGED <<heap, handles, cellv>>
    /\ UNCHANGED user

\* Mutant of Acquired: compare_exchange_strong takes the match branch
\* whatever the cell holds.
AcquiredNoCompare(t, h) ==
    LET r == reg[t]
    IN  CASE r.op \in {"lock", "wait"} -> Goto(t, "idle", NoReg)
          [] r.op = "wait_pred" -> Goto(t, "pred", r)
          [] r.op = "load" -> Goto(t, "load_addref", [r EXCEPT !.p = h])
          [] r.op \in {"exchange", "store"} ->
                Goto(t, "sau", [r EXCEPT !.p = h, !.h = AddrOf(r.des)])
          [] r.op = "cas" ->
                Goto(t, "sau", [r EXCEPT !.p = h, !.h = AddrOf(r.des), !.ok = TRUE])

\* What the caller of lock_and_load does with the handle it returned, up to
\* its next access to shared memory.
Acquired(t, h) ==
    LET r == reg[t]
    IN  CASE r.op \in {"lock", "wait"} -> Goto(t, "idle", NoReg)
          [] r.op = "wait_pred" -> Goto(t, "pred", r)
          [] r.op = "load" -> Goto(t, "load_addref", [r EXCEPT !.p = h])
          [] r.op \in {"exchange", "store"} ->
                Goto(t, "sau", [r EXCEPT !.p = h, !.h = AddrOf(r.des)])
          [] r.op = "cas" ->
                IF h = obj[r.dst]
                THEN Goto(t, "sau", [r EXCEPT !.p = h, !.h = AddrOf(r.des),
                                              !.ok = TRUE])
                ELSE Goto(t, "load_addref", [r EXCEPT !.p = h])

\* Mutant of LalCas: a locked word is taken like a free one.
LalCasBarging(t) ==
    /\ pc[t] = "lal_switch"
    /\ IF storage # reg[t].v
       THEN /\ Goto(t, LalCase(storage), [reg[t] EXCEPT !.v = storage])
            /\ UNCHANGED <<storage, locks>>
       ELSE /\ storage' = Bits(reg[t].v) + locked
            /\ locks' = [locks EXCEPT ![t] = TRUE]
            /\ Acquired(t, HandleOf(reg[t].v))
    /\ UNCHANGED <<heap, handles, cell, parked>>
    /\ UNCHANGED user

\* lock_and_load, cases 0 and condition: compare_exchange_weak(v, (v & ~mask)
\* | locked), on success return handle(v & ~mask); case locked:
\* compare_exchange_weak(v, (v & ~mask) | waiting), on success v = (v & ~mask)
\* | waiting and fall through to the wait. A failed compare_exchange loads the
\* word into v.
LalCas(t) ==
    /\ pc[t] = "lal_switch"
    /\ IF storage # reg[t].v
       THEN /\ Goto(t, LalCase(storage), [reg[t] EXCEPT !.v = storage])
            /\ UNCHANGED <<storage, locks>>
       ELSE IF TagOf(reg[t].v) = locked
       THEN /\ storage' = Bits(reg[t].v) + waiting
            /\ Goto(t, "lal_wait", [reg[t] EXCEPT !.v = Bits(reg[t].v) + waiting])
            /\ UNCHANGED locks
       ELSE /\ storage' = Bits(reg[t].v) + locked
            /\ locks' = [locks EXCEPT ![t] = TRUE]
            /\ Acquired(t, HandleOf(reg[t].v))
    /\ UNCHANGED <<heap, handles, cell, parked>>
    /\ UNCHANGED user

\* Mutant of LalWait: the thread blocks without comparing the word with v.
LalWaitBlind(t) ==
    /\ pc[t] = "lal_wait" /\ t \notin parked
    /\ parked' = parked \cup {t}
    /\ UNCHANGED <<heap, handles, pc, reg, cell, storage, locks>>
    /\ UNCHANGED user

\* lock_and_load, case waiting: storage.wait(v) returns when the word is not
\* v, and blocks the thread while it is.
LalWait(t) ==
    /\ pc[t] = "lal_wait" /\ t \notin parked
    /\ IF storage # reg[t].v
       THEN Goto(t, "lal_load", reg[t]) /\ UNCHANGED parked
       ELSE parked' = parked \cup {t} /\ UNCHANGED <<pc, reg>>
    /\ UNCHANGED <<heap, handles, cell, storage, locks>>
    /\ UNCHANGED user

\* What the caller of store_and_unlock does after it, up to its next access
\* to shared memory; r are the caller's locals.
Unlocked(t, r) ==
    CASE r.op = "unlock" -> Goto(t, "idle", NoReg) /\ UNCHANGED obj
      [] r.op \in {"wait", "wait_pred"} -> Goto(t, "cv_wait", r) /\ UNCHANGED obj
      [] r.op \in {"load", "exchange"} -> Goto(t, "ret", r) /\ UNCHANGED obj
      [] r.op = "store" ->
            /\ IF r.p = NULL THEN Goto(t, "idle", NoReg)
               ELSE Goto(t, "dtor", [NoReg EXCEPT !.p = r.p, !.own = TRUE])
            /\ UNCHANGED obj
      [] r.op = "cas" ->
            IF r.ok
            THEN Goto(t, "ret", r) /\ UNCHANGED obj
            ELSE \* obj.swap(expected)
                 /\ obj' = [obj EXCEPT ![r.dst] = r.p]
                 /\ Goto(t, "ret", [r EXCEPT !.p = obj[r.dst], !.own = TRUE])

\* Mutant of Handed: desired is not released, so it still owns what the
\* cell was given.
HandedNoRelease(r) ==
    IF r.op \in {"exchange", "store"} \/ (r.op = "cas" /\ r.ok)
    THEN [r EXCEPT !.own = TRUE]
    ELSE r

\* The locals after storage.exchange: what was desired.release() is now the
\* cell's, and the local obj owns what the cell held.
Handed(r) ==
    IF r.op \in {"exchange", "store"} \/ (r.op = "cas" /\ r.ok)
    THEN [r EXCEPT !.own = TRUE, !.des = NULL]
    ELSE r

\* Mutant of SauXchg: store_and_unlock notifies nobody.
SauXchgSilent(t) ==
    /\ pc[t] = "sau"
    /\ storage' = reg[t].h
    /\ locks' = [locks EXCEPT ![t] = FALSE]
    /\ Unlocked(t, Handed(reg[t]))
    /\ UNCHANGED <<heap, wk, str, raw, cell, parked>>
    /\ UNCHANGED user

\* store_and_unlock: auto v = storage.exchange(h, order)
SauXchg(t) ==
    /\ pc[t] = "sau"
    /\ storage' = reg[t].h
    /\ locks' = [locks EXCEPT ![t] = FALSE]
    /\ IF TagOf(storage) = waiting
       THEN Goto(t, "sau_notify", Handed(reg[t])) /\ UNCHANGED obj
       ELSE Unlocked(t, Handed(reg[t]))
    /\ UNCHANGED <<heap, wk, str, raw, cell, parked>>
    /\ UNCHANGED user

\* store_and_unlock: if ((v & mask) == waiting) storage.notify_all()
SauNotify(t) ==
    /\ pc[t] = "sau_notify"
    /\ parked' = {}
    /\ Unlocked(t, reg[t])
    /\ UNCHANGED <<heap, wk, str, raw, cell, storage, locks>>
    /\ UNCHANGED user

\* lock(): (void)lock_and_load(relaxed)
LockCall(t) ==
    /\ CanCall(t) /\ ~locks[t]
    /\ Goto(t, "lal_load", [NoReg EXCEPT !.op = "lock"])
    /\ UNCHANGED <<heap, handles, cellv>>

Lock(t) == LockCall(t) /\ UNCHANGED user

\* try_lock(): v = storage.load(); if the tag is neither 0 nor condition
\* return false
TryLock(t) ==
    /\ CanCall(t)
    /\ IF TagOf(storage) # 0 /\ TagOf(storage) # condition
       THEN Goto(t, "ret", [NoReg EXCEPT !.op = "try_lock", !.ok = FALSE])
       ELSE Goto(t, "try_cas", [NoReg EXCEPT !.op = "try_lock", !.v = storage])
    /\ UNCHANGED <<heap, handles, cellv>>
    /\ UNCHANGED user

\* try_lock(): return storage.compare_exchange_weak(v, (v & ~mask) | locked).
\* compare_exchange_weak may fail although the word is v.
TryCas(t) ==
    /\ pc[t] = "try_cas"
    /\ \/ /\ storage = reg[t].v
          /\ storage' = Bits(reg[t].v) + locked
          /\ locks' = [locks EXCEPT ![t] = TRUE]
          /\ Goto(t, "ret", [reg[t] EXCEPT !.ok = TRUE])
       \/ /\ Goto(t, "ret", [reg[t] EXCEPT !.ok = FALSE])
          /\ UNCHANGED <<storage, locks>>
    /\ UNCHANGED <<heap, handles, cell, parked>>
    /\ UNCHANGED user

\* unlock(): v = storage.load() & ~mask; store_and_unlock(handle(v), release)
UnlockCall(t) ==
    /\ CanCall(t) /\ locks[t]
    /\ Goto(t, "sau", [NoReg EXCEPT !.op = "unlock", !.h = Bits(storage)])
    /\ UNCHANGED <<heap, handles, cellv>>

Unlock(t) == UnlockCall(t) /\ UNCHANGED user

\* load(): object obj(lock_and_load(order))
Load(t, j) ==
    /\ CanCall(t) /\ ~locks[t] /\ ~Busy(j) /\ obj[j] = NULL
    /\ Goto(t, "lal_load", [NoReg EXCEPT !.op = "load", !.dst = j])
    /\ UNCHANGED <<heap, handles, cellv>>
    /\ UNCHANGED user

\* Mutant of LoadAddref: the loaded handle is not counted.
LoadNoAddref(t) ==
    /\ pc[t] = "load_addref"
    /\ Goto(t, "sau", [reg[t] EXCEPT !.own = TRUE, !.h = AddrOf(reg[t].p)])
    /\ UNCHANGED <<heap, handles, cellv>>
    /\ UNCHANGED user

\* load() and the mismatch branch of compare_exchange_strong:
\* if (obj.p) obj.p->addref(); then store_and_unlock(obj.p, ...)
LoadAddref(t) ==
    /\ pc[t] = "load_addref"
    /\ refcount' = IF reg[t].p # NULL
                   THEN [refcount EXCEPT ![reg[t].p] = addref(@)] ELSE refcount
    /\ Goto(t, "sau", [reg[t] EXCEPT !.own = TRUE, !.h = AddrOf(reg[t].p)])
    /\ UNCHANGED <<weak, mem, payload, dtors, frees, handles, cellv>>
    /\ UNCHANGED user

\* exchange(object desired) called with std::move(variable i); the result is
\* assigned to variable i. store(desired) is exchange whose result is dropped.
ExchangeCall(t, i, op) ==
    /\ CanCall(t) /\ ~locks[t] /\ ~Busy(i)
    /\ obj' = [obj EXCEPT ![i] = NULL]
    /\ Goto(t, "lal_load", [NoReg EXCEPT !.op = op, !.des = obj[i],
                                         !.dst = IF op = "exchange" THEN i ELSE 0])
    /\ UNCHANGED <<heap, wk, str, raw, cellv>>

Exchange(t, i, op) == ExchangeCall(t, i, op) /\ UNCHANGED user

\* compare_exchange_strong(expected, desired) and compare_exchange_weak,
\* which calls it: expected is variable e, desired is std::move(variable d)
\* or, with d = 0, an empty object.
CompareExchange(t, e, d) ==
    /\ CanCall(t) /\ ~locks[t] /\ e # d /\ ~Busy(e) /\ (d # 0 => ~Busy(d))
    /\ obj' = IF d = 0 THEN obj ELSE [obj EXCEPT ![d] = NULL]
    /\ Goto(t, "lal_load", [NoReg EXCEPT !.op = "cas", !.dst = e,
                                         !.des = IF d = 0 THEN NULL ELSE obj[d]])
    /\ UNCHANGED <<heap, wk, str, raw, cellv>>
    /\ UNCHANGED user

\* set(object obj) called by the lock's holder with std::move(variable i):
\* o = obj.p; v = storage.load()
Set(t, i) ==
    /\ CanCall(t) /\ locks[t] /\ ~Busy(i)
    /\ obj' = [obj EXCEPT ![i] = NULL]
    /\ Goto(t, "set_cas", [NoReg EXCEPT !.op = "set", !.dst = i, !.des = obj[i],
                                        !.v = storage])
    /\ UNCHANGED <<heap, wk, str, raw, cellv>>
    /\ UNCHANGED user

\* Mutant of SetCas: the new word is the bare handle, the tag is lost.
SetCasDropTag(t) ==
    /\ pc[t] = "set_cas"
    /\ IF storage # reg[t].v
       THEN /\ Goto(t, "set_cas", [reg[t] EXCEPT !.v = storage])
            /\ UNCHANGED storage
       ELSE /\ storage' = AddrOf(reg[t].des)
            /\ Goto(t, "ret", [reg[t] EXCEPT !.p = HandleOf(reg[t].v),
                                            !.own = TRUE, !.des = NULL])
    /\ UNCHANGED <<heap, handles, cell, locks, parked>>
    /\ UNCHANGED user

\* set: while (!storage.compare_exchange_weak(v, o | (v & mask)));
\* obj.p = handle(v & ~mask); return std::move(obj)
SetCas(t) ==
    /\ pc[t] = "set_cas"
    /\ IF storage # reg[t].v
       THEN /\ Goto(t, "set_cas", [reg[t] EXCEPT !.v = storage])
            /\ UNCHANGED storage
       ELSE /\ storage' = AddrOf(reg[t].des) + TagOf(reg[t].v)
            /\ Goto(t, "ret", [reg[t] EXCEPT !.p = HandleOf(reg[t].v),
                                            !.own = TRUE, !.des = NULL])
    /\ UNCHANGED <<heap, handles, cell, locks, parked>>
    /\ UNCHANGED user

\* The operation returns: a returned object becomes variable dst; the local
\* obj and the parameter desired of compare_exchange_strong are destroyed.
Return(t) ==
    /\ pc[t] = "ret"
    /\ CASE reg[t].op \in {"load", "exchange", "set"} ->
                /\ obj' = [obj EXCEPT ![reg[t].dst] = reg[t].p]
                /\ Goto(t, "idle", NoReg)
         [] reg[t].op = "try_lock" ->
                /\ Goto(t, "idle", NoReg)
                /\ UNCHANGED obj
         [] reg[t].op = "cas" ->
                /\ IF reg[t].p = NULL
                   THEN Finish(t)
                   ELSE Goto(t, "dtor", [NoReg EXCEPT !.p = reg[t].p, !.own = TRUE,
                                                      !.des = reg[t].des])
                /\ UNCHANGED obj
    /\ UNCHANGED <<heap, wk, str, raw, cellv>>
    /\ UNCHANGED user

\* wait(): v = storage.load(); assert the lock is held;
\* store_and_unlock(handle((v & ~mask) | condition), release)
WaitCall(t) ==
    /\ CanCall(t) /\ locks[t]
    /\ Goto(t, "sau", [NoReg EXCEPT !.op = "wait", !.v = storage,
                                    !.h = Bits(storage) + condition])
    /\ UNCHANGED <<heap, handles, cellv>>

Wait(t) == WaitCall(t) /\ UNCHANGED user

\* Mutant of CvWait: wait() returns when it is woken, without lock_and_load.
CvWaitNoRelock(t) ==
    /\ pc[t] = "cv_wait" /\ t \notin parked
    /\ IF storage # reg[t].h
       THEN Goto(t, "idle", NoReg) /\ UNCHANGED parked
       ELSE parked' = parked \cup {t} /\ UNCHANGED <<pc, reg>>
    /\ UNCHANGED <<heap, handles, cell, storage, locks>>
    /\ UNCHANGED user

\* wait(): storage.wait((v & ~mask) | condition), then lock_and_load
CvWait(t) ==
    /\ pc[t] = "cv_wait" /\ t \notin parked
    /\ IF storage # reg[t].h
       THEN Goto(t, "lal_load", reg[t]) /\ UNCHANGED parked
       ELSE parked' = parked \cup {t} /\ UNCHANGED <<pc, reg>>
    /\ UNCHANGED <<heap, handles, cell, storage, locks>>
    /\ UNCHANGED user

\* notify_all(): storage.notify_all()
NotifyAllCall(t) ==
    /\ CanCall(t)
    /\ parked' = {}
    /\ UNCHANGED <<heap, handles, pc, reg, cell, storage, locks>>

NotifyAll(t) == NotifyAllCall(t) /\ UNCHANGED user

\* Mutant of NotifyOneCall: the notification wakes nobody.
NotifyOneLost(t) ==
    /\ CanCall(t)
    /\ UNCHANGED <<heap, handles, pc, reg, cellv>>

\* notify_one(): storage.notify_one()
NotifyOneCall(t) ==
    /\ CanCall(t)
    /\ IF parked = {} THEN UNCHANGED parked
       ELSE \E u \in parked : parked' = parked \ {u}
    /\ UNCHANGED <<heap, handles, pc, reg, cell, storage, locks>>

NotifyOne(t) == NotifyOneCall(t) /\ UNCHANGED user

\* std::atomic::wait may unblock spuriously; it then compares again.
SpuriousWake(t) ==
    /\ t \in parked
    /\ parked' = parked \ {t}
    /\ UNCHANGED <<heap, handles, pc, reg, cell, storage, locks>>
    /\ UNCHANGED user

\* The predicate the caller passes to wait(pred): [&] { return shutdown; }
stop_waiting == shutdown

\* wait(Predicate stop_waiting), called by the lock's holder
WaitPredCall(t) ==
    /\ CanCall(t) /\ locks[t]
    /\ Goto(t, "pred", [NoReg EXCEPT !.op = "wait_pred"])
    /\ UNCHANGED <<heap, handles, cellv>>

WaitPred(t) == WaitPredCall(t) /\ UNCHANGED user

\* wait(pred): while (!stop_waiting()) wait(); and the first access of
\* wait(): v = storage.load(), store_and_unlock(handle((v & ~mask) | condition))
PredTest(t) ==
    /\ pc[t] = "pred"
    /\ IF stop_waiting
       THEN Goto(t, "idle", NoReg)
       ELSE Goto(t, "sau", [reg[t] EXCEPT !.v = storage,
                                          !.h = Bits(storage) + condition])
    /\ UNCHANGED <<heap, handles, cellv>>
    /\ UNCHANGED user

\* The caller's code inside its critical section: shutdown = b
SetShutdown(t, b) ==
    /\ Idle(t) /\ locks[t] /\ shutdown # b
    /\ shutdown' = b
    /\ UNCHANGED <<heap, handles, cellv, pc, reg, prog, vtype, ext>>

\* ------------------------------------------------------------ specifications
StrongOps(t) ==
    \/ \E i \in Slots : Make(t, i) \/ Destroy(t, i)
    \/ \E i, j \in Slots : \/ Copy(t, i, j) \/ Move(t, i, j)
                           \/ CopyAssign(t, i, j) \/ MoveAssign(t, i, j)
    \/ TempDtor(t) \/ HolderDestroy(t) \/ PlaceholderDestroy(t) \/ Delete(t)

WeakOps(t) ==
    \/ \E w \in WSlots :
          \/ WeakDestroy(t, w)
          \/ \E i \in Slots : \/ WeakFromObject(t, w, i)
                              \/ WeakLock(t, w, i, "lock")
                              \/ WeakLock(t, w, i, "object")
          \/ \E x \in WSlots : WeakCopy(t, w, x)
    \/ XrefCas(t) \/ ObjectCheck(t) \/ LockReturn(t) \/ Caught(t)

RawOps(t) ==
    \/ \E i \in Slots : Release(t, i) \/ Adopt(t, i)
    \/ \E i, j \in Slots : Swap(t, i, j)

StrOps(t) ==
    \E s \in SSlots :
        \/ StrMake(t, s) \/ StrDestroy(t, s)
        \/ \E d \in SSlots : \/ StrCopy(t, s, d) \/ StrMove(t, s, d)
                             \/ StrSwap(t, s, d)
                             \/ StrCopyAssign(t, d, s) \/ StrMoveAssign(t, d, s)
        \/ \E j \in Slots : StrObject(t, s, j)
        \/ StrReturn(t)

\* Strong and weak handles shared by the threads.
Next == \E t \in Threads : StrongOps(t) \/ WeakOps(t)

Spec == Init /\ [][Next]_vars

CellOps(t) ==
    \/ \E i \in Slots : \/ CellCtor(t, i) \/ Load(t, i) \/ Set(t, i)
                        \/ Exchange(t, i, "exchange") \/ Exchange(t, i, "store")
                        \/ \E d \in Slots \cup {0} : CompareExchange(t, i, d)
    \/ CellDtor(t)
    \/ Lock(t) \/ TryLock(t) \/ TryCas(t) \/ Unlock(t)
    \/ LalLoad(t) \/ LalCas(t) \/ LalWait(t)
    \/ LoadAddref(t) \/ SauXchg(t) \/ SauNotify(t) \/ SetCas(t) \/ Return(t)
    \/ Wait(t) \/ CvWait(t) \/ NotifyAll(t) \/ NotifyOne(t) \/ SpuriousWake(t)

\* One atomic cell shared by the threads, and the strong handles they move
\* into it and get out of it.
CellNext ==
    \E t \in Threads :
        \/ CellOps(t)
        \/ \E i \in Slots : Make(t, i) \/ Destroy(t, i)
        \/ \E i, j \in Slots : Copy(t, i, j)
        \/ TempDtor(t) \/ HolderDestroy(t) \/ PlaceholderDestroy(t) \/ Delete(t)

CellSpec == Init /\ [][CellNext]_vars

\* Every kind of owning handle: strong handles and string handles.
OwnNext == \E t \in Threads : StrongOps(t) \/ RawOps(t) \/ StrOps(t)

OwnSpec == Init /\ [][OwnNext]_vars

\* The lock and condition-variable side of one atomic cell: the threads lock,
\* unlock, wait and notify in any order, change the predicate's variable
\* inside their critical sections, and the holder of the lock sets the handle.
LockNext ==
    \E t \in Threads :
        \/ \E i \in Slots : Make(t, i) \/ CellCtor(t, i) \/ Set(t, i)
        \/ Lock(t) \/ TryLock(t) \/ TryCas(t) \/ Unlock(t)
        \/ LalLoad(t) \/ LalCas(t) \/ LalWait(t)
        \/ SauXchg(t) \/ SauNotify(t) \/ SetCas(t) \/ Return(t)
        \/ Wait(t) \/ WaitPred(t) \/ PredTest(t) \/ CvWait(t)
        \/ NotifyAll(t) \/ NotifyOne(t) \/ SpuriousWake(t)
        \/ \E b \in BOOLEAN : SetShutdown(t, b)

LockSpec == Init /\ [][LockNext]_vars

\* TEST_CASE("condition variable"): the main thread constructs the cell and
\* is the notifier, the thread it starts is the waiter.
Waiter   == 1
Notifier == 2

Advance(t) == prog' = [prog EXCEPT ![t] = @ + 1] /\ UNCHANGED <<shutdown, vtype, ext>>

\* std::lock_guard _(cvm)
WaiterLock == prog[Waiter] = 0 /\ LockCall(Waiter) /\ Advance(Waiter)

\* cvm.wait([&] { return shutdown; })
WaiterWait == prog[Waiter] = 1 /\ WaitPredCall(Waiter) /\ Advance(Waiter)

\* shutdown = false
WaiterClear ==
    /\ prog[Waiter] = 2 /\ Idle(Waiter)
    /\ shutdown' = FALSE
    /\ prog' = [prog EXCEPT ![Waiter] = 3]
    /\ UNCHANGED <<heap, handles, cellv, pc, reg, vtype, ext>>

\* ~lock_guard
WaiterUnlock == prog[Waiter] = 3 /\ UnlockCall(Waiter) /\ Advance(Waiter)

\* object::atomic cvm
NotifierCtor == CellCtor(Notifier, 1)

\* std::unique_lock(cvm)
NotifierLock == prog[Notifier] = 0 /\ LockCall(Notifier) /\ Advance(Notifier)

\* shutdown = true
NotifierSet ==
    /\ prog[Notifier] = 1 /\ Idle(Notifier)
    /\ shutdown' = TRUE
    /\ prog' = [prog EXCEPT ![Notifier] = 2]
    /\ UNCHANGED <<heap, handles, cellv, pc, reg, vtype, ext>>

\* cvm.notify_one()
NotifierNotify ==
    prog[Notifier] = 2 /\ NotifyOneCall(Notifier) /\ Advance(Notifier)

\* ~unique_lock
NotifierUnlock == prog[Notifier] = 3 /\ UnlockCall(Notifier) /\ Advance(Notifier)

\* The steps inside lock(), unlock() and wait(pred)
Inside(t) ==
    \/ LalLoad(t) \/ LalCas(t) \/ LalWait(t)
    \/ SauXchg(t) \/ SauNotify(t) \/ PredTest(t) \/ CvWait(t)

WaiterStep ==
    WaiterLock \/ WaiterWait \/ WaiterClear \/ WaiterUnlock \/ Inside(Waiter)

NotifierStep ==
    \/ NotifierCtor \/ NotifierLock \/ NotifierSet \/ NotifierNotify
    \/ NotifierUnlock \/ Inside(Notifier)

HandoffNext ==
    \/ WaiterStep \/ NotifierStep
    \/ \E t \in {Waiter, Notifier} : SpuriousWake(t)

\* Both threads are scheduled fairly; a blocked std::atomic::wait is woken
\* by a notification, a spurious wake-up is possible and not promised.
HandoffSpec ==
    Init /\ [][HandoffNext]_vars /\ WF_vars(WaiterStep) /\ WF_vars(NotifierStep)

\* The steps inside an operation that thread t has begun
Running(t) ==
    \/ TempDtor(t) \/ HolderDestroy(t) \/ PlaceholderDestroy(t) \/ Delete(t)
    \/ WueLoad(t) \/ WueWait(t) \/ WueReturn(t)

\* Threads that copy and destroy strong handles while others wait for the
\* holder to expire (TEST_CASE("weak wait")). A thread that has begun an
\* operation is scheduled until the operation ends or blocks.
ExpireNext ==
    \E t \in Threads :
        \/ \E i \in Slots : Make(t, i) \/ Destroy(t, i)
        \/ \E i, j \in Slots : Copy(t, i, j) \/ MoveAssign(t, i, j)
        \/ \E w \in WSlots : \/ WeakDestroy(t, w) \/ WaitExpired(t, w)
                              \/ \E i \in Slots : WeakFromObject(t, w, i)
        \/ Running(t)
        \/ SpuriousWake(t)

ExpireSpec ==
    Init /\ [][ExpireNext]_vars /\ \A t \in Threads : WF_vars(Running(t))

\* Threads that make, copy, move and destroy strong handles and cast them.
CastNext ==
    \E t \in Threads :
        \/ \E i \in Slots, T \in PayloadTypes : emplace(t, i, T)
        \/ \E i \in Slots : Destroy(t, i)
        \/ \E i, j \in Slots : Copy(t, i, j) \/ Move(t, i, j)
        \/ HolderDestroy(t) \/ PlaceholderDestroy(t) \/ Delete(t)
        \/ \E i \in Slots, U \in CastTypes, cast \in Casts, form \in {"ptr", "ref"} :
               Cast(t, i, U, cast, form)
        \/ CastReturn(t) \/ Caught(t)

CastSpec == Init /\ [][CastNext]_vars

\* ------------------------------------------------------------------ arrays
\* emplace<T[]>(n), emplace<T[N]>() and object::fam<T, U[]>(n, args...) on
\* an empty handle: holder::create allocates the block; the constructor of
\* held<U[]> (of held<T[N]>) then constructs the elements.
ArrayCreate(t, i, kind, n) ==
    /\ Idle(t) /\ ~Busy(i) /\ obj[i] = NULL
    /\ \E h \in Holders :
          /\ Fresh(h)
          /\ refcount' = [refcount EXCEPT ![h] = 1]
          /\ weak'     = [weak     EXCEPT ![h] = 1]
          /\ mem'      = [mem      EXCEPT ![h] = "live"]
          /\ vtype'    = [vtype    EXCEPT ![h] = kind]
          /\ elems'    = [elems    EXCEPT ![h] = [k \in 1..n |-> "none"]]
          /\ Goto(t, "construct", [NoReg EXCEPT !.p = h, !.dst = i, !.r = 0])
    /\ UNCHANGED <<payload, dtors, frees, handles, cellv, shutdown, prog, more>>

\* std::uninitialized_value_construct_n(value(this1), n), and T{...} for a
\* T[N]: the elements are constructed from the first to the last; r counts
\* the elements constructed so far. When all are there, the head of a fam
\* is constructed (holder<T>::construct in the body of the constructor),
\* and the handle gets the holder.
Construct(t) ==
    /\ pc[t] = "construct"
    /\ LET h == reg[t].p  IN
       IF reg[t].r < Len(elems[h])
       THEN /\ elems' = [elems EXCEPT ![h][reg[t].r + 1] = "alive"]
            /\ Goto(t, "construct", [reg[t] EXCEPT !.r = @ + 1])
            /\ UNCHANGED <<payload, obj>>
       ELSE /\ payload' = [payload EXCEPT ![h] = "alive"]
            /\ obj' = [obj EXCEPT ![reg[t].dst] = h]
            /\ Goto(t, "idle", NoReg)
            /\ UNCHANGED elems
    /\ UNCHANGED <<refcount, weak, mem, dtors, frees, wk, str, raw, cellv>>
    /\ UNCHANGED <<shutdown, prog, vtype, more>>

\* Mutant of ArrayDestroy: the head of a fam is not destroyed before its
\* elements.
ArrayDestroyElemsFirst(t) ==
    /\ pc[t] = "destroy" /\ vtype[reg[t].p] \in ArrayKinds
    /\ Goto(t, "destruct", [reg[t] EXCEPT !.r = Len(elems[reg[t].p])])
    /\ UNCHANGED <<refcount, weak, mem, frees, handles, cellv>>
    /\ UNCHANGED <<payload, dtors>>
    /\ UNCHANGED user

\* holder<T, U[]>::destroy begins with holder<T>::destruct(), the head's
\* destructor; holder<T[]>::destroy and holder<T[N]>::destroy begin with the
\* elements. r is the loop variable of the loop over the elements, which
\* starts behind the last one.
ArrayDestroy(t) ==
    /\ pc[t] = "destroy" /\ vtype[reg[t].p] \in ArrayKinds
    /\ IF vtype[reg[t].p] = "fam"
       THEN /\ payload' = [payload EXCEPT ![reg[t].p] = "destroyed"]
            /\ dtors'   = [dtors   EXCEPT ![reg[t].p] = @ + 1]
       ELSE UNCHANGED <<payload, dtors>>
    /\ Goto(t, "destruct", [reg[t] EXCEPT !.r = Len(elems[reg[t].p])])
    /\ UNCHANGED <<refcount, weak, mem, frees, handles, cellv>>
    /\ UNCHANGED user

\* Mutant of Destruct: the elements are destroyed from the first to the last,
\* as std::destroy_at of C++20 does for an array.
DestructForward(t) ==
    /\ pc[t] = "destruct"
    /\ LET h == reg[t].p  IN
       IF reg[t].r > 0
       THEN /\ elems' = [elems EXCEPT ![h][Len(elems[h]) - reg[t].r + 1] = "destroyed"]
            /\ Goto(t, "destruct", [reg[t] EXCEPT !.r = @ - 1])
            /\ UNCHANGED <<payload, dtors>>
       ELSE /\ Goto(t, "placeholder_destroy", reg[t])
            /\ IF vtype[h] = "fam" THEN UNCHANGED payload
               ELSE payload' = [payload EXCEPT ![h] = "destroyed"]
            /\ IF vtype[h] = "fam" THEN UNCHANGED dtors
               ELSE dtors' = [dtors EXCEPT ![h] = @ + 1]
            /\ UNCHANGED elems
    /\ UNCHANGED <<refcount, weak, mem, frees, handles, cellv>>
    /\ UNCHANGED <<shutdown, prog, vtype, more>>

\* held<T[]>::destruct: for (p = q + n; p != q; ) destroy_at(--p), and
\* destroy_at of a T[N]: for (i = extent; i > 0; --i) destroy_at(&(*p)[i - 1]).
\* After the loop comes placeholder::destroy.
Destruct(t) ==
    /\ pc[t] = "destruct"
    /\ LET h == reg[t].p  IN
       IF reg[t].r > 0
       THEN /\ elems' = [elems EXCEPT ![h][reg[t].r] = "destroyed"]
            /\ Goto(t, "destruct", [reg[t] EXCEPT !.r = @ - 1])
            /\ UNCHANGED <<payload, dtors>>
       ELSE /\ Goto(t, "placeholder_destroy", reg[t])
            /\ IF vtype[h] = "fam" THEN UNCHANGED payload
               ELSE payload' = [payload EXCEPT ![h] = "destroyed"]
            /\ IF vtype[h] = "fam" THEN UNCHANGED dtors
               ELSE dtors' = [dtors EXCEPT ![h] = @ + 1]
            /\ UNCHANGED elems
    /\ UNCHANGED <<refcount, weak, mem, frees, handles, cellv>>
    /\ UNCHANGED <<shutdown, prog, vtype, more>>

\* Threads that create arrays and fams and copy, move and destroy the
\* handles to them.
ArrayNext ==
    \E t \in Threads :
        \/ \E i \in Slots, kind \in ArrayKinds, n \in 0..MaxLen :
               ArrayCreate(t, i, kind, n)
        \/ Construct(t)
        \/ \E i \in Slots : Destroy(t, i)
        \/ \E i, j \in Slots : Copy(t, i, j) \/ Move(t, i, j)
        \/ ArrayDestroy(t) \/ Destruct(t) \/ PlaceholderDestroy(t) \/ Delete(t)

ArraySpec == Init /\ [][ArrayNext]_vars

\* Threads that construct string handles from texts and from generic
\* handles, and copy, move, assign, swap and destroy them.
StrNext ==
    \E t \in Threads :
        \/ \E s \in SSlots, text \in Texts : StrCtor(t, s, text)
        \/ \E i \in Slots, text \in Texts : CharArray(t, i, text)
        \/ \E i \in Slots : emplace(t, i, "tracker") \/ Destroy(t, i)
        \/ \E s \in SSlots, i \in Slots, rvalue \in BOOLEAN :
               StrFromObject(t, s, i, rvalue)
        \/ \E s, d \in SSlots : \/ StrCopy(t, s, d) \/ StrMove(t, s, d)
                                \/ StrSwap(t, s, d)
                                \/ StrCopyAssign(t, d, s) \/ StrMoveAssign(t, d, s)
        \/ \E s \in SSlots : StrDestroy(t, s)
        \/ StrReturn(t) \/ Caught(t) \/ TempDtor(t)
        \/ HolderDestroy(t) \/ PlaceholderDestroy(t) \/ Delete(t)

StrSpec == Init /\ [][StrNext]_vars

\* --------------------------------------------------------------- callables
\* The handle variables declared object::fn<int(int)>; the others are
\* declared object.
FnVars == {1}

\* holder<F, R(Args...)>::call: value()(args). The lambda is
\* [seed](int d) mutable { return d + (seed++); }, echo returns its argument.
Result(h, x) == IF vtype[h] = "lambda" THEN x + seed[h] ELSE x
Called(h)    == IF vtype[h] = "lambda" THEN [seed EXCEPT ![h] = @ + 1] ELSE seed

\* Mutant of operator_call: an empty handle is called like any other.
operator_call_unchecked(t, i, x, op) ==
    /\ seed' = seed
    /\ Goto(t, "fn_ret", [NoReg EXCEPT !.op = op, !.dst = i, !.ret = x])

\* object__fn<R(Args...)>::operator() on variable i: if (p == nullptr) throw
\* object_not_fn{}; return static_cast<holder<R(Args...)>*>(p)->call(args).
\* The call through a holder that is no holder<R(Args...)> is undefined.
operator_call(t, i, x, op) ==
    IF obj[i] = NULL
    THEN /\ Goto(t, "thrown", [NoReg EXCEPT !.op = op, !.dst = i,
                                            !.err = "object_not_fn"])
         /\ UNCHANGED seed
    ELSE IF vtype[obj[i]] \notin Callables
    THEN /\ \E r \in 0..1 :
              Goto(t, "fn_ret", [NoReg EXCEPT !.op = op, !.dst = i, !.ret = r])
         /\ UNCHANGED seed
    ELSE /\ seed[obj[i]] < MaxCalls
         /\ seed' = Called(obj[i])
         /\ Goto(t, "fn_ret", [NoReg EXCEPT !.op = op, !.dst = i,
                                            !.ret = Result(obj[i], x)])

\* f(x) on an object::fn<int(int)> f
FnInvoke(t, i, x) ==
    /\ Idle(t) /\ ~Busy(i) /\ i \in FnVars
    /\ operator_call(t, i, x, "fn_call")
    /\ UNCHANGED <<heap, handles, cellv, shutdown, prog, vtype, elems, gref, alias, cobj>>

\* Mutant of FnFromObject: every handle is taken.
FnFromObjectAny(t, j, i, rvalue) ==
    /\ Idle(t) /\ ~Busy(i) /\ ~Busy(j) /\ j \in FnVars /\ i \notin FnVars
    /\ obj[j] = NULL
    /\ obj' = [obj EXCEPT ![j] = obj[i], ![i] = IF rvalue THEN NULL ELSE @]
    /\ refcount' = IF obj[i] # NULL /\ ~rvalue
                   THEN [refcount EXCEPT ![obj[i]] = addref(@)]
                   ELSE refcount
    /\ Goto(t, "fn_ret", [NoReg EXCEPT !.op = "fn_from_object", !.dst = j])
    /\ UNCHANGED <<weak, mem, payload, dtors, frees, wk, str, raw, cellv>>
    /\ UNCHANGED user

\* object::fn<int(int)> f(obj) and f(std::move(obj)), f being variable j and
\* obj variable i: if (obj && obj.type() != type_id<R(Args...)>()) throw
\* object_not_fn{}; object::operator=(std::forward<Object>(obj))
FnFromObject(t, j, i, rvalue) ==
    /\ Idle(t) /\ ~Busy(i) /\ ~Busy(j) /\ j \in FnVars /\ i \notin FnVars
    /\ obj[j] = NULL
    /\ IF obj[i] # NULL /\ type(obj[i]) # "int(int)"
       THEN /\ Goto(t, "thrown", [NoReg EXCEPT !.op = "fn_from_object",
                                  !.dst = j, !.err = "object_not_fn"])
            /\ UNCHANGED <<obj, refcount>>
       ELSE /\ obj' = [obj EXCEPT ![j] = obj[i],
                                  ![i] = IF rvalue THEN NULL ELSE @]
            /\ refcount' = IF obj[i] # NULL /\ ~rvalue
                           THEN [refcount EXCEPT ![obj[i]] = addref(@)]
                           ELSE refcount
            /\ Goto(t, "fn_ret", [NoReg EXCEPT !.op = "fn_from_object",
                                               !.dst = j])
    /\ UNCHANGED <<weak, mem, payload, dtors, frees, wk, str, raw, cellv>>
    /\ UNCHANGED user

\* f = callable and f.emplace<F>() on a non-empty f: object::emplace creates
\* the new holder and destroys the old one with the temporary old.
FnEmplace(t, i, F) ==
    /\ Idle(t) /\ ~Busy(i) /\ i \in FnVars /\ obj[i] # NULL
    /\ \E h \in Holders : /\ Fresh(h) /\ create(h)
                          /\ obj' = [obj EXCEPT ![i] = h]
                          /\ vtype' = [vtype EXCEPT ![h] = F]
    /\ ThenTemp(t, obj[i])
    /\ UNCHANGED <<wk, str, raw, cellv, shutdown, prog, ext>>

\* The callable reference that refers to the handle variable i through
\* callobj
RefTo(i) == [f |-> "callobj", o |-> i]

\* g = f for the object::fn<int(&)(int)> g and an owning f (variable i in
\* FnVars): o(&f), f(&callobj), if (!f) throw object_not_fn{}; and g = obj for
\* a generic handle: if (obj.type() != type_id<R(Args...)>()) throw
\* object_not_fn{}
RefFromHandle(t, i) ==
    /\ Idle(t) /\ ~Busy(i)
    /\ IF (i \in FnVars /\ obj[i] = NULL)
          \/ (i \notin FnVars /\ type(obj[i]) # "int(int)")
       THEN /\ Goto(t, "thrown", [NoReg EXCEPT !.op = "ref_from", !.dst = i,
                                               !.err = "object_not_fn"])
            /\ UNCHANGED gref
       ELSE /\ Goto(t, "fn_ret", [NoReg EXCEPT !.op = "ref_from", !.dst = i])
            /\ gref' = RefTo(i)
    /\ UNCHANGED <<heap, handles, cellv, shutdown, prog, vtype, elems, seed, alias, cobj>>

\* g = S::echo: the reference to any other callable stores its address and
\* a function that calls it
RefFromCallable(t) ==
    /\ Idle(t)
    /\ gref' = [f |-> "thunk", o |-> 0]
    /\ Goto(t, "fn_ret", [NoReg EXCEPT !.op = "ref_from"])
    /\ UNCHANGED <<heap, handles, cellv, shutdown, prog, vtype, elems, seed, alias, cobj>>

\* Mutant of RefInvoke: the reference calls the function it was made from
\* without looking at the handle again.
RefInvokeStale(t, x) ==
    /\ Idle(t) /\ gref.f # "none"
    /\ Goto(t, "fn_ret", [NoReg EXCEPT !.op = "ref_call", !.dst = gref.o,
                                       !.ret = x])
    /\ UNCHANGED seed
    /\ UNCHANGED <<heap, handles, cellv, shutdown, prog, vtype, elems, gref, alias, cobj>>

\* g(x): (*f)(o, args); callobj calls the object__fn at o
RefInvoke(t, x) ==
    /\ Idle(t) /\ gref.f # "none"
    /\ IF gref.f = "callobj"
       THEN ~Busy(gref.o) /\ operator_call(t, gref.o, x, "ref_call")
       ELSE /\ Goto(t, "fn_ret", [NoReg EXCEPT !.op = "ref_call", !.ret = x])
            /\ UNCHANGED seed
    /\ UNCHANGED <<heap, handles, cellv, shutdown, prog, vtype, elems, gref, alias, cobj>>

\* g.object(): f == &callobj ? *static_cast<object__fn*>(o) : object__fn{};
\* the handle value of the copy it returns
ref_object == IF gref.f = "callobj" THEN obj[gref.o] ELSE NULL

\* the caller goes on with what the call or the constructor returned
FnReturn(t) ==
    /\ pc[t] = "fn_ret"
    /\ Goto(t, "idle", NoReg)
    /\ UNCHANGED <<heap, handles, cellv>>
    /\ UNCHANGED user

\* Threads that make owning callables and generic handles, call them, and
\* make and call the callable reference g.
FnNext ==
    \E t \in Threads :
        \/ \E i \in Slots, F \in Callables : emplace(t, i, F) \/ FnEmplace(t, i, F)
        \/ \E i \in Slots \ FnVars : emplace(t, i, "tracker")
        \/ \E i \in Slots : Destroy(t, i) \/ RefFromHandle(t, i)
        \/ \E i, j \in Slots, rvalue \in BOOLEAN : FnFromObject(t, j, i, rvalue)
        \/ \E i \in Slots, x \in 0..1 : FnInvoke(t, i, x)
        \/ \E x \in 0..1 : RefInvoke(t, x)
        \/ RefFromCallable(t)
        \/ FnReturn(t) \/ Caught(t) \/ TempDtor(t)
        \/ HolderDestroy(t) \/ PlaceholderDestroy(t) \/ Delete(t)

FnSpec == Init /\ [][FnNext]_vars

\* ------------------------------------------------ object__ptr, object__ref
\* The T of the aliasing variables: a class and its base class
AliasTypes == {"tracker", "derived"}

\* An interior pointer is null, the address of the value of holder h (h),
\* the address of a member of that value (Member(h)), or Wild.
Member(h) == Wild + h
Into(q)   == IF q \in Holders THEN q ELSE IF q > Wild THEN q - Wild ELSE NULL

\* The raw pointers a caller hands to the aliasing constructors together
\* with the handle in variable i: null, or one into the value that handle
\* keeps alive
RawPointers(i) == IF obj[i] = NULL THEN {NULL} ELSE {NULL, Member(obj[i])}

\* U* converts to T*
Converts(U, T) == U = T \/ IsBaseOf(T, U)

ABusy(a) == \E t \in Threads : pc[t] # "idle" /\ reg[t].a = a

Constructed(a) == alias[a].k # "none"

\* object__ptr<T>::operator bool, object__ref<T>::operator bool:
\* p != nullptr
operator_bool(a) == alias[a].p # NULL

AliasFrame == UNCHANGED <<weak, mem, payload, dtors, frees, wk, str, raw, cellv,
                          shutdown, prog, vtype, elems, seed, gref,
                          cobj>>

\* The tail of the four constructors from an object: q is the interior
\* pointer computed first, through the reference form of a cast when deref
\* (which throws bad_object_cast for a null pointer); then
\* object::operator=(obj) for an lvalue, object::swap(obj) for an rvalue.
AliasInit(t, a, i, rvalue, K, T, q, deref, op) ==
    IF deref /\ q = NULL
    THEN /\ Goto(t, "thrown", [NoReg EXCEPT !.op = op, !.a = a, !.dst = i,
                                            !.ty = T, !.form = K,
                                            !.err = "bad_object_cast"])
         /\ UNCHANGED <<obj, refcount, alias>>
    ELSE /\ alias' = [alias EXCEPT ![a] = [k |-> K, T |-> T, h |-> obj[i],
                                           p |-> q]]
         /\ obj' = IF rvalue THEN [obj EXCEPT ![i] = NULL] ELSE obj
         /\ refcount' = IF ~rvalue /\ obj[i] # NULL
                        THEN [refcount EXCEPT ![obj[i]] = addref(@)]
                        ELSE refcount
         /\ UNCHANGED <<pc, reg>>

\* Mutant of AliasFromObject: the interior is resolved by the polymorphic
\* cast, as it is when a null raw pointer is given.
AliasFromObjectPolymorphic(t, a, i, rvalue, K, T) ==
    /\ Idle(t) /\ ~Busy(i) /\ ~ABusy(a) /\ ~Constructed(a)
    /\ LET deref == K = "ref" \/ obj[i] # NULL
       IN  \E q \in (IF deref THEN polymorphic_object_cast(obj[i], T)
                     ELSE {NULL}) :
               AliasInit(t, a, i, rvalue, K, T, q, deref, "alias_from")
    /\ AliasFrame

\* object__ptr(const object&), object__ptr(object&&):
\*   p = obj ? addressof(object_cast<T>(obj)) : nullptr
\* object__ref(const object&), object__ref(object&&):
\*   p = addressof(object_cast<T>(obj))
AliasFromObject(t, a, i, rvalue, K, T) ==
    /\ Idle(t) /\ ~Busy(i) /\ ~ABusy(a) /\ ~Constructed(a)
    /\ LET deref == K = "ref" \/ obj[i] # NULL
       IN  \E q \in (IF deref THEN object_cast(obj[i], T) ELSE {NULL}) :
               AliasInit(t, a, i, rvalue, K, T, q, deref, "alias_from")
    /\ AliasFrame

\* object__ptr(const object&, T* p), object__ptr(object&&, T* p):
\*   if (p) this->p = p; else if (obj) this->p =
\*   addressof(polymorphic_object_cast<T>(obj)); else this->p = nullptr
\* object__ref(const object&, T* p), object__ref(object&&, T* p):
\*   this->p = p ? p : addressof(polymorphic_object_cast<T>(obj))
AliasFromObjectRaw(t, a, i, rvalue, K, T, rawp) ==
    /\ Idle(t) /\ ~Busy(i) /\ ~ABusy(a) /\ ~Constructed(a)
    /\ rawp \in RawPointers(i)
    /\ LET deref == rawp = NULL /\ (K = "ref" \/ obj[i] # NULL)
       IN  \E q \in (IF rawp # NULL THEN {rawp}
                     ELSE IF deref THEN polymorphic_object_cast(obj[i], T)
                     ELSE {NULL}) :
               AliasInit(t, a, i, rvalue, K, T, q, deref, "alias_from_raw")
    /\ AliasFrame

\* object__fam(const object&), object__fam(object&&):
\*   auto h = obj ? dynamic_cast<holder<T, U[]>*>(obj.p) : nullptr;
\*   if (obj && !h) throw bad_object_cast{};
\*   object::operator=(obj) or object::swap(obj);
\*   object__ptr<T>::p = addressof(h->value());
\* For an empty obj h is null and h->value() is not defined: the address of
\* the value of a holder at address 0, as in unsafe_object_cast.
FamFromObject(t, a, i, rvalue) ==
    /\ Idle(t) /\ ~Busy(i) /\ ~ABusy(a) /\ ~Constructed(a)
    /\ LET h == IF obj[i] # NULL /\ vtype[obj[i]] = "fam" THEN obj[i] ELSE NULL
       IN  \E q \in unsafe_object_cast(h, "tracker") :
               AliasInit(t, a, i, rvalue, "ptr", "tracker", q,
                         obj[i] # NULL /\ h = NULL, "fam_from")
    /\ AliasFrame

\* object__ptr(): p(nullptr), the handle part empty
PtrDefault(t, a) ==
    /\ Idle(t) /\ ~ABusy(a) /\ ~Constructed(a)
    /\ alias' = [alias EXCEPT ![a] = [NoAlias EXCEPT !.k = "ptr",
                                                     !.T = "tracker"]]
    /\ UNCHANGED <<heap, handles, pc, reg, cellv, shutdown, prog, vtype, elems,
                   seed, gref, cobj>>

\* object__ptr(const object__ptr<U>&), object__ref(const object__ref<U>&),
\* and the implicit copy constructors (U = T): object(p), p(p.p)
AliasCopy(t, a, b, T) ==
    /\ Idle(t) /\ a # b /\ ~ABusy(a) /\ ~ABusy(b)
    /\ Constructed(a) /\ ~Constructed(b) /\ Converts(alias[a].T, T)
    /\ alias' = [alias EXCEPT ![b] = [alias[a] EXCEPT !.T = T]]
    /\ refcount' = IF alias[a].h # NULL
                   THEN [refcount EXCEPT ![alias[a].h] = addref(@)]
                   ELSE refcount
    /\ UNCHANGED <<obj, pc, reg>>
    /\ AliasFrame

\* object__ptr(object__ptr<U>&&), object__ref(object__ref<U>&&), and the
\* implicit move constructors: object(std::move(p)), p(p.p). object(object&&)
\* empties the handle part of the source; its member p is only read.
AliasMove(t, a, b, T) ==
    /\ Idle(t) /\ a # b /\ ~ABusy(a) /\ ~ABusy(b)
    /\ Constructed(a) /\ ~Constructed(b) /\ Converts(alias[a].T, T)
    /\ alias' = [alias EXCEPT ![b] = [alias[a] EXCEPT !.T = T],
                              ![a] = [@ EXCEPT !.h = NULL]]
    /\ UNCHANGED <<obj, refcount, pc, reg>>
    /\ AliasFrame

\* object__ref(const object__ptr<U>& p) : p(p.p)
\*   { if (!p) throw bad_object_cast{}; object::operator=(p); }
\* object__ref(object__ptr<U>&& p): the same with object::swap(p)
RefFromPtr(t, a, b, rvalue, T) ==
    /\ Idle(t) /\ a # b /\ ~ABusy(a) /\ ~ABusy(b)
    /\ alias[a].k = "ptr" /\ ~Constructed(b) /\ Converts(alias[a].T, T)
    /\ IF ~operator_bool(a)
       THEN /\ Goto(t, "thrown", [NoReg EXCEPT !.op = "ref_from_ptr", !.a = b,
                                               !.ty = T, !.form = "ref",
                                               !.err = "bad_object_cast"])
            /\ UNCHANGED <<alias, refcount>>
       ELSE /\ alias' = [alias EXCEPT
                            ![b] = [k |-> "ref", T |-> T, h |-> alias[a].h,
                                    p |-> alias[a].p],
                            ![a] = IF rvalue THEN [@ EXCEPT !.h = NULL] ELSE @]
            /\ refcount' = IF ~rvalue /\ alias[a].h # NULL
                           THEN [refcount EXCEPT ![alias[a].h] = addref(@)]
                           ELSE refcount
            /\ UNCHANGED <<pc, reg>>
    /\ UNCHANGED obj
    /\ AliasFrame

\* swap(object__ptr&), swap(object__ref&): std::swap(p, r.p); object::swap(r)
AliasSwap(t, a, b) ==
    /\ Idle(t) /\ a < b /\ ~ABusy(a) /\ ~ABusy(b)
    /\ Constructed(a) /\ alias[a].k = alias[b].k /\ alias[a].T = alias[b].T
    /\ alias' = [alias EXCEPT ![a] = alias[b], ![b] = alias[a]]
    /\ UNCHANGED <<obj, refcount, pc, reg>>
    /\ AliasFrame

\* The implicit operator= of object__ptr<T> and of object__ref<T>: the base
\* class is assigned with object::operator= (if (p != obj.p)
\* object(obj).swap(*this), with std::move(obj) for an rvalue), then the
\* member: p = r.p.
AliasAssign(t, d, s, rvalue) ==
    /\ Idle(t) /\ d # s /\ ~ABusy(d) /\ ~ABusy(s)
    /\ Constructed(d) /\ alias[d].k = alias[s].k /\ alias[d].T = alias[s].T
    /\ IF alias[d].h = alias[s].h
       THEN /\ alias' = [alias EXCEPT ![d] = [@ EXCEPT !.p = alias[s].p]]
            /\ UNCHANGED <<refcount, pc, reg>>
       ELSE /\ alias' = [alias EXCEPT
                            ![d] = alias[s],
                            ![s] = IF rvalue THEN [@ EXCEPT !.h = NULL] ELSE @]
            /\ refcount' = IF ~rvalue /\ alias[s].h # NULL
                           THEN [refcount EXCEPT ![alias[s].h] = addref(@)]
                           ELSE refcount
            /\ ThenTemp(t, alias[d].h)
    /\ UNCHANGED obj
    /\ AliasFrame

\* emplace(args...): *(p = addressof(object::emplace<T>(args...))), where
\* object::emplace is q = holder<T>::create(args...);
\* object old(std::exchange(p, q)); return q->value()
AliasEmplace(t, a) ==
    /\ Idle(t) /\ ~ABusy(a) /\ Constructed(a)
    /\ \E h \in Holders :
          /\ Fresh(h) /\ create(h)
          /\ vtype' = [vtype EXCEPT ![h] = alias[a].T]
          /\ alias' = [alias EXCEPT ![a] = [@ EXCEPT !.h = h, !.p = h]]
    /\ ThenTemp(t, alias[a].h)
    /\ UNCHANGED <<handles, cellv, shutdown, prog, elems, seed, gref, cobj>>

\* ~object__ptr(), ~object__ref(): ~object() of the handle part
AliasDestroy(t, a) ==
    /\ Idle(t) /\ ~ABusy(a) /\ Constructed(a)
    /\ alias' = [alias EXCEPT ![a] = NoAlias]
    /\ IF alias[a].h = NULL
       THEN UNCHANGED <<refcount, pc, reg>>
       ELSE /\ refcount' = [refcount EXCEPT ![alias[a].h] = release(@)]
            /\ AfterRelease(t, alias[a].h)
    /\ UNCHANGED obj
    /\ AliasFrame

\* The aliasing variables and the objects they are built from belong to one
\* thread.
AliasNext ==
    \E t \in {1} :
        \/ \E i \in Slots, T \in AliasTypes : emplace(t, i, T)
        \/ \E i \in Slots : ArrayCreate(t, i, "fam", 1) \/ Destroy(t, i)
        \/ Construct(t) \/ ArrayDestroy(t) \/ Destruct(t)
        \/ \E a \in ASlots, i \in Slots, rvalue \in BOOLEAN :
              \/ \E K \in {"ptr", "ref"}, T \in AliasTypes :
                    \/ AliasFromObject(t, a, i, rvalue, K, T)
                    \/ \E rawp \in 0..(Wild + NumHolders) :
                          AliasFromObjectRaw(t, a, i, rvalue, K, T, rawp)
              \/ FamFromObject(t, a, i, rvalue)
        \/ \E a, b \in ASlots :
              \/ \E T \in AliasTypes :
                    \/ AliasCopy(t, a, b, T) \/ AliasMove(t, a, b, T)
                    \/ \E rvalue \in BOOLEAN : RefFromPtr(t, a, b, rvalue, T)
              \/ AliasSwap(t, a, b)
              \/ \E rvalue \in BOOLEAN : AliasAssign(t, a, b, rvalue)
        \/ \E a \in ASlots : PtrDefault(t, a) \/ AliasEmplace(t, a)
                                \/ AliasDestroy(t, a)
        \/ Caught(t) \/ TempDtor(t)
        \/ HolderDestroy(t) \/ PlaceholderDestroy(t) \/ Delete(t)

AliasSpec == Init /\ [][AliasNext]_vars

\* ------------------------------------------------- from, release, adopt
\* A raw pointer to the payload of holder h, or to its control block, that
\* a caller can have: a handle refers to h, or release() has detached a
\* pointer to it that nothing has adopted.
Reachable(h) == raw[h] > 0 \/ \E j \in Slots : obj[j] = h /\ ~Busy(j)

\* Mutant of From: the pointer is adopted as it is, without addref().
FromNoAddref(t, i, h) ==
    /\ Idle(t) /\ ~Busy(i) /\ obj[i] = NULL /\ Reachable(h)
    /\ obj' = [obj EXCEPT ![i] = h]
    /\ UNCHANGED <<heap, wk, str, raw, pc, reg, cellv>>
    /\ UNCHANGED user

\* object::from(placeholder* p): p->addref(); return object(p). The
\* overload for a T* computes the holder's address from the payload's,
\* holder<T>* from(const T* p), and object::from(object::from(p)) is this
\* function applied to it. The caller keeps its pointer.
From(t, i, h) ==
    /\ Idle(t) /\ ~Busy(i) /\ obj[i] = NULL /\ Reachable(h)
    /\ refcount' = [refcount EXCEPT ![h] = addref(@)]
    /\ obj' = [obj EXCEPT ![i] = h]
    /\ UNCHANGED <<weak, mem, payload, dtors, frees, wk, str, raw, pc, reg, cellv>>
    /\ UNCHANGED user

\* object__ptr<T>::from(const T* p): object__ptr r; r.p = p;
\* if (p) object::from(object::from(p)).swap(r); return r.
\* h = NULL stands for the null pointer.
PtrFrom(t, a, h) ==
    /\ Idle(t) /\ ~ABusy(a) /\ ~Constructed(a)
    /\ h # NULL => Reachable(h)
    /\ refcount' = IF h # NULL THEN [refcount EXCEPT ![h] = addref(@)]
                   ELSE refcount
    /\ alias' = [alias EXCEPT ![a] = [k |-> "ptr", T |-> "tracker", h |-> h,
                                      p |-> h]]
    /\ UNCHANGED <<obj, pc, reg>>
    /\ AliasFrame

FromNext ==
    \E t \in Threads :
        \/ \E i \in Slots : Make(t, i) \/ Destroy(t, i) \/ Release(t, i)
                              \/ Adopt(t, i)
        \/ \E i, j \in Slots : Copy(t, i, j)
        \/ \E i \in Slots, h \in Holders : From(t, i, h)
        \/ \E a \in ASlots, h \in Handle : PtrFrom(t, a, h)
        \/ \E a \in ASlots : AliasDestroy(t, a)
        \/ HolderDestroy(t) \/ PlaceholderDestroy(t) \/ Delete(t)

FromSpec == Init /\ [][FromNext]_vars

\* ----------------------------------------------------------------- cobject
\* The counters and the storage of all holders, as one value
TheHeap == [refcount |-> refcount, weak |-> weak, mem |-> mem,
            payload |-> payload, dtors |-> dtors, frees |-> frees]

SetHeap(H) ==
    /\ refcount' = H.refcount /\ weak' = H.weak /\ mem' = H.mem
    /\ payload' = H.payload /\ dtors' = H.dtors /\ frees' = H.frees

\* Mutant of cobject_handle_copy: the definition cobject.h starts with, (p).
cobject_handle_copy_plain(H, p) == H

\* #define cobject_handle_copy(p) (void*)object((const object&)(p)).release()
\* a copy of the handle stored at p, which does addref() when it is not
\* null, detached again by release(); the value is p. H is the heap before,
\* the result the heap after.
cobject_handle_copy(H, p) ==
    IF p = NULL THEN H ELSE [H EXCEPT !.refcount[p] = addref(@)]

\* #define cobject_handle_clear(p) (void)object((object::handle)(p))
\* a temporary adopts p and is destroyed: if (p && p->release() == 0)
\* p->destroy(), where destroy() runs the payload's destructor and then
\* placeholder::destroy: if (weak.release() != 0) return; delete this
cobject_handle_clear(H, p) ==
    IF p = NULL THEN H
    ELSE LET c == release(H.refcount[p])
             w == release(H.weak[p])
         IN  IF c # 0 THEN [H EXCEPT !.refcount[p] = c]
             ELSE [H EXCEPT !.refcount[p] = c,
                            !.payload[p] = "destroyed",
                            !.dtors[p] = @ + 1,
                            !.weak[p] = w,
                            !.mem[p] = IF w = 0 THEN "freed" ELSE @,
                            !.frees[p] = IF w = 0 THEN @ + 1 ELSE @]

CobjFrame == UNCHANGED <<obj, wk, str, pc, reg, cellv, shutdown, prog, vtype,
                         elems, seed, gref, alias>>

\* cobject_clear(o): if (o->type == cobject_handle)
\* cobject_handle_clear(o->p); cobject_init(o)
cobject_clear(t, c) ==
    /\ Idle(t)
    /\ SetHeap(cobject_handle_clear(TheHeap, cobj[c]))
    /\ cobj' = [cobj EXCEPT ![c] = NULL]
    /\ UNCHANGED raw
    /\ CobjFrame

\* cobject_set_handle(o, p): cobject_clear(o); o->type = cobject_handle;
\* o->p = p, with a pointer p that release() has detached
cobject_set_handle(t, c, h) ==
    /\ Idle(t) /\ raw[h] > 0
    /\ SetHeap(cobject_handle_clear(TheHeap, cobj[c]))
    /\ cobj' = [cobj EXCEPT ![c] = h]
    /\ raw' = [raw EXCEPT ![h] = @ - 1]
    /\ CobjFrame

\* cobject_copy(src, dst): cobject_clear(dst); memcpy(dst, src, ...);
\* if (src->type == cobject_handle) dst->p = cobject_handle_copy(src->p).
\* When dst is src the clear leaves nothing to copy.
cobject_copy(t, src, dst) ==
    /\ Idle(t)
    /\ LET cleared == [cobj EXCEPT ![dst] = NULL]
           p       == cleared[src]
       IN  /\ SetHeap(cobject_handle_copy(
                         cobject_handle_clear(TheHeap, cobj[dst]), p))
           /\ cobj' = [cleared EXCEPT ![dst] = p]
    /\ UNCHANGED raw
    /\ CobjFrame

CobjNext ==
    \E t \in Threads :
        \/ \E i \in Slots : Make(t, i) \/ Destroy(t, i) \/ Release(t, i)
        \/ \E i, j \in Slots : Copy(t, i, j)
        \/ \E c \in CSlots, h \in Holders : cobject_set_handle(t, c, h)
        \/ \E c, d \in CSlots : cobject_copy(t, c, d)
        \/ \E c \in CSlots : cobject_clear(t, c)
        \/ HolderDestroy(t) \/ PlaceholderDestroy(t) \/ Delete(t)

CobjSpec == Init /\ [][CobjNext]_vars

\* ------------------------------------------------------------ object__vec
\* object__vec<T>::size(): if (auto h = static_cast<holder<T[]>*>(p))
\* return h->length(); return 0
vec_size(i) == IF obj[i] = NULL THEN 0 ELSE Len(elems[obj[i]])

\* Mutant of VecAt: operator[], which does not compare i with size(); what
\* it returns for an i that is not below size() is not defined.
VecSubscript(t, i, k) ==
    /\ Idle(t) /\ ~Busy(i)
    /\ \E e \in 1..(MaxLen + 2) :
          /\ k < vec_size(i) => e = k + 1
          /\ Goto(t, "at_ret", [NoReg EXCEPT !.op = "at", !.dst = i, !.v = k,
                                             !.h = obj[i], !.ret = e])
    /\ UNCHANGED <<heap, handles, cellv>>
    /\ UNCHANGED user

\* object__vec<T>::at(i): if (size() <= i) throw std::out_of_range(...);
\* return static_cast<holder<T[]>*>(p)->value()[i]. The element value()[i]
\* is elems[h][i + 1].
VecAt(t, i, k) ==
    /\ Idle(t) /\ ~Busy(i)
    /\ IF vec_size(i) <= k
       THEN Goto(t, "thrown", [NoReg EXCEPT !.op = "at", !.dst = i, !.v = k,
                                            !.err = "out_of_range"])
       ELSE Goto(t, "at_ret", [NoReg EXCEPT !.op = "at", !.dst = i, !.v = k,
                                            !.h = obj[i], !.ret = k + 1])
    /\ UNCHANGED <<heap, handles, cellv>>
    /\ UNCHANGED user

\* the caller uses the element
VecReturn(t) ==
    /\ pc[t] = "at_ret"
    /\ Goto(t, "idle", NoReg)
    /\ UNCHANGED <<heap, handles, cellv>>
    /\ UNCHANGED user

VecNext ==
    \E t \in Threads :
        \/ \E i \in Slots, n \in 0..MaxLen : ArrayCreate(t, i, "tracker[]", n)
        \/ Construct(t)
        \/ \E i \in Slots : Destroy(t, i)
        \/ \E i, j \in Slots : Copy(t, i, j)
        \/ \E i \in Slots, k \in 0..(MaxLen + 1) : VecAt(t, i, k)
        \/ VecReturn(t) \/ Caught(t)
        \/ ArrayDestroy(t) \/ Destruct(t) \/ PlaceholderDestroy(t) \/ Delete(t)

VecSpec == Init /\ [][VecNext]_vars

\* ------------------------------------------------------------- accounting
\* A temporary or local object of a running operation that owns reg[t].p:
\* the temporary of an assignment before its destructor, and the object that
\* lock() has built and not yet returned.
OwnsTemp(t, h) == reg[t].own /\ reg[t].p = h

\* The owning handles that refer to h: strong variables, string variables,
\* temporaries.
StrongRefs(h) == Cardinality({i \in Slots : obj[i] = h})
               + Cardinality({s \in SSlots : str[s] = h})
               + Cardinality({t \in Threads : OwnsTemp(t, h)})

\* The weak handles that refer to h.
WeakRefs(h) == Cardinality({w \in WSlots : wk[w] = h})

At(label, h) == {t \in Threads : pc[t] = label /\ reg[t].p = h}

\* --------------------------------------------------------------------- C2
\* C2: in every interleaving of copies, moves, assignments and destructions
\* of strong handles and of weak lock(), the payload destructor of a holder
\* runs exactly once: it is run by the one thread whose release took the
\* strong count to 0, and never while the count is positive or a strong
\* handle refers to the holder.
ExactlyOnceDestruction ==
    \A h \in Holders :
        /\ dtors[h] <= 1
        /\ (payload[h] = "destroyed") = (dtors[h] = 1)
        /\ (mem[h] # "unused" /\ refcount[h] = 0)
              => Cardinality(At("destroy", h)) + dtors[h] = 1
        /\ (refcount[h] > 0 \/ StrongRefs(h) > 0)
              => (dtors[h] = 0 /\ At("destroy", h) = {} /\ payload[h] = "alive")

\* The payload was destroyed while a weak lock() that had read a positive
\* count was still in its loop.
C2Witness ==
    \E h \in Holders, t \in Threads :
        dtors[h] = 1 /\ pc[t] = "xref" /\ reg[t].p = h /\ reg[t].r > 0

AllocationLifetime ==
    \A h \in Holders :
        /\ frees[h] <= 1
        /\ (mem[h] = "freed") = (frees[h] = 1)
        /\ mem[h] = "live" =>
              /\ weak[h] - WeakRefs(h) \in {0, 1}
              /\ payload[h] = "alive" => weak[h] = WeakRefs(h) + 1
              /\ weak[h] = WeakRefs(h) + 1
                    => (payload[h] = "alive" \/ At("placeholder_destroy", h) # {})
              /\ weak[h] = WeakRefs(h) => payload[h] = "destroyed"
              /\ (weak[h] = 0) = (Cardinality(At("delete", h)) = 1)
        /\ At("delete", h) # {} => mem[h] = "live"
        /\ mem[h] = "freed" =>
              /\ StrongRefs(h) = 0 /\ WeakRefs(h) = 0
              /\ refcount[h] = 0 /\ weak[h] = 0
              /\ payload[h] = "destroyed"
              /\ \A t \in Threads : reg[t].p # h

\* One allocation is freed while the other outlives its payload because a
\* weak handle still refers to it.
C4Witness ==
    \E h, g \in Holders :
        /\ mem[h] = "freed"
        /\ mem[g] = "live" /\ payload[g] = "destroyed"
        /\ WeakRefs(g) = 1 /\ weak[g] = 1

\* --------------------------------------------------------------------- C5
LockResult(t) == pc[t] \in {"lock_ret", "object_check"} /\ reg[t].p # NULL

UpgradedAlive ==
    \A t \in Threads :
        LockResult(t) => /\ payload[reg[t].p] = "alive"
                         /\ refcount[reg[t].p] > 0
                         /\ At("destroy", reg[t].p) = {}

\* C5: a strong count that has reached 0 never becomes positive again; weak
\* lock() obtains a non-null handle only in a step that raises the strong
\* count from a value greater than 0 to that value plus one; and the handle
\* it obtains refers to a payload whose destruction has not started.
WeakUpgrade ==
    [][ /\ \A h \in Holders :
              (mem[h] # "unused" /\ refcount[h] = 0) => refcount'[h] = 0
        /\ \A t \in Threads :
              (~LockResult(t) /\ LockResult(t)')
                 => /\ pc[t] = "xref"
                    /\ refcount[reg[t].p] > 0
                    /\ refcount'[reg[t].p] = refcount[reg[t].p] + 1
                    /\ reg'[t].p = reg[t].p
        /\ UpgradedAlive' ]_vars

\* lock() read a positive count and the count fell to 0 before its
\* compare_exchange.
C5Witness ==
    \E t \in Threads :
        pc[t] = "xref" /\ reg[t].r > 0 /\ refcount[reg[t].p] = 0

\* --------------------------------------------------------------------- C6
\* What lock() has produced is the weak handle's control block or null, it is
\* null only when the weak handle is expired, operator object() returns no
\* null handle, and it throws bad_weak_object only on an expired handle.
RoundTrip ==
    /\ \A w \in WSlots :
          wk[w] # NULL => (expired(w) = (StrongRefs(wk[w]) = 0))
    /\ \A t \in Threads :
          /\ pc[t] \in {"lock_ret", "object_check"} =>
                /\ reg[t].p \in {NULL, wk[reg[t].w]}
                /\ reg[t].p = NULL => expired(reg[t].w)
                /\ reg[t].p # NULL => ~expired(reg[t].w)
          /\ (pc[t] = "lock_ret" /\ reg[t].op = "object") => reg[t].p # NULL
          /\ pc[t] = "thrown" =>
                /\ reg[t].err = "bad_weak_object"
                /\ reg[t].p = NULL /\ expired(reg[t].w)

\* C6: while a strong handle to the holder is alive a weak handle to it is
\* not expired and lock() returns a handle to the same control block; once
\* no strong handle is left the weak handle is expired, lock() returns null,
\* and the conversion to a strong handle throws bad_weak_object; a lock()
\* or conversion that fails changes no counter.
WeakRoundTrip ==
    [][ /\ RoundTrip'
        /\ \A t \in Threads :
              (pc'[t] \in {"lock_ret", "object_check", "thrown"}
                 /\ pc[t] # pc'[t] /\ reg'[t].p = NULL)
                 => (refcount' = refcount /\ weak' = weak) ]_vars

\* The conversion of an expired, non-null weak handle has thrown.
C6Witness ==
    \E t \in Threads :
        pc[t] = "thrown" /\ reg[t].w \in WSlots /\ wk[reg[t].w] # NULL

\* --------------------------------------------------------------------- C1
\* C1: in every interleaving of lock, try_lock, unlock, wait, load, store,
\* exchange and compare_exchange on one cell, at most one thread is between
\* an acquisition of the lock and its release, and while a thread is there
\* the word's tag is locked or waiting.
MutualExclusion ==
    /\ \A t, u \in Threads : (locks[t] /\ locks[u]) => t = u
    /\ (\E t \in Threads : locks[t]) => TagOf(storage) \in {locked, waiting}

\* One thread is inside load's critical section while another is blocked in
\* lock_and_load.
C1Witness ==
    \E t, u \in Threads :
        /\ locks[t] /\ reg[t].op = "load" /\ pc[t] = "sau"
        /\ u \in parked /\ pc[u] = "lal_wait"

\* --------------------------------------------------------------------- C7
CasExchanges(t) == pc[t] = "sau" /\ reg[t].op = "cas" /\ pc'[t] # "sau"

\* C7: compare_exchange_strong decides and acts inside one critical section:
\* when the cell's handle is expected, the exchange stores desired and the
\* call returns true, leaving expected as it was; otherwise the strong count
\* of the cell's handle is incremented by one, the exchange leaves the
\* handle in the cell, expected becomes that handle, and the call returns
\* false.
CasContract ==
    [][ \A t \in Threads :
          /\ (pc[t] \in {"load_addref", "sau"} /\ reg[t].op = "cas")
                => (locks[t] /\ HandleOf(storage) = reg[t].p)
          /\ (CasExchanges(t) /\ reg[t].ok)
                => /\ HandleOf(storage) = obj[reg[t].dst]
                   /\ storage' = AddrOf(reg[t].des)
                   /\ obj' = obj
                   /\ refcount' = refcount
          /\ (CasExchanges(t) /\ ~reg[t].ok)
                => /\ HandleOf(storage) # obj[reg[t].dst]
                   /\ storage' = Bits(storage)
                   /\ refcount' = refcount
          /\ (pc[t] = "load_addref" /\ reg[t].op = "cas" /\ pc'[t] # pc[t])
                => /\ storage' = storage
                   /\ \A h \in Holders :
                         refcount'[h] = IF h = HandleOf(storage)
                                        THEN refcount[h] + 1 ELSE refcount[h]
          /\ (pc'[t] = "ret" /\ pc[t] # "ret" /\ reg'[t].op = "cas")
                => IF reg'[t].ok
                   THEN obj' = obj
                   ELSE /\ obj'[reg[t].dst] = reg[t].p
                        /\ reg'[t].p = obj[reg[t].dst] ]_vars

\* A compare_exchange has returned false and has put a live handle, equal to
\* the cell's, into expected.
C7Witness ==
    \E t \in Threads :
        /\ pc[t] = "ret" /\ reg[t].op = "cas" /\ ~reg[t].ok
        /\ obj[reg[t].dst] # NULL
        /\ HandleOf(storage) = obj[reg[t].dst]
        /\ refcount[obj[reg[t].dst]] >= 2

\* --------------------------------------------------------------------- C8
\* C8: load() is alone in its critical section, in which the cell holds the
\* handle load returns; it increments that control block's strong count by
\* exactly one, its exchange leaves the handle bits as they are and releases
\* the lock, and it returns without the lock.
LoadContract ==
    [][ \A t \in Threads :
          /\ (pc[t] \in {"load_addref", "sau"} /\ reg[t].op = "load")
                => /\ locks[t] /\ HandleOf(storage) = reg[t].p
                   /\ \A u \in Threads \ {t} : ~locks[u]
          /\ (pc[t] = "load_addref" /\ reg[t].op = "load" /\ pc'[t] # pc[t])
                => /\ storage' = storage
                   /\ \A h \in Holders :
                         refcount'[h] = IF h = HandleOf(storage)
                                        THEN refcount[h] + 1 ELSE refcount[h]
          /\ (pc[t] = "sau" /\ reg[t].op = "load" /\ pc'[t] # "sau")
                => /\ storage' = Bits(storage)
                   /\ ~locks'[t]
                   /\ refcount' = refcount
          /\ (pc'[t] = "ret" /\ reg'[t].op = "load")
                => (~locks'[t] /\ reg'[t].own)
          /\ (pc[t] = "ret" /\ reg[t].op = "load" /\ pc'[t] = "idle")
                => obj'[reg[t].dst] = reg[t].p ]_vars

\* load() has returned a second handle to what the cell still holds, after
\* it had to wait for the lock.
C8Witness ==
    \E t \in Threads :
        /\ pc[t] = "ret" /\ reg[t].op = "load" /\ reg[t].p # NULL
        /\ HandleOf(storage) = reg[t].p /\ refcount[reg[t].p] = 2
        /\ TagOf(reg[t].v) = condition

\* --------------------------------------------------------------------- C9
Exchanging(t) == reg[t].op \in {"exchange", "store"}

\* C9: the exchange step of exchange() and store() puts desired into the
\* cell and hands the handle the cell held to the caller, and no step of the
\* operation changes a strong count; the handle store() got back is
\* released afterwards.
ExchangeContract ==
    [][ \A t \in Threads :
          /\ (Exchanging(t) /\ <<pc[t], reg[t]>> # <<pc'[t], reg'[t]>>)
                => refcount' = refcount
          /\ (Exchanging(t) /\ pc[t] = "sau")
                => (locks[t] /\ HandleOf(storage) = reg[t].p /\ ~reg[t].own)
          /\ (Exchanging(t) /\ pc[t] = "sau" /\ pc'[t] # "sau")
                => /\ storage' = AddrOf(reg[t].des)
                   /\ ~locks'[t]
                   /\ reg[t].op = "exchange"
                         => (reg'[t].p = reg[t].p /\ reg'[t].own
                               /\ reg'[t].des = NULL)
                   /\ (reg[t].op = "store" /\ pc'[t] # "sau_notify")
                         => IF reg[t].p = NULL THEN pc'[t] = "idle"
                            ELSE (pc'[t] = "dtor" /\ reg'[t].p = reg[t].p)
          /\ (pc[t] = "ret" /\ reg[t].op = "exchange" /\ pc'[t] = "idle")
                => obj'[reg[t].dst] = reg[t].p ]_vars

\* Two concurrent exchanges have returned two different live handles.
C9Witness ==
    \E t, u \in Threads :
        /\ pc[t] = "ret" /\ reg[t].op = "exchange" /\ reg[t].p # NULL
        /\ pc[u] = "ret" /\ reg[u].op = "exchange" /\ reg[u].p # NULL
        /\ reg[t].p # reg[u].p

\* -------------------------------------------------------------------- C10
\* The reference the cell owns
CellRefs(h) == IF cell = "live" /\ HandleOf(storage) = h THEN 1 ELSE 0

\* The references owned by parameters desired of running operations
DesRefs(h) == Cardinality({t \in Threads : reg[t].des = h})

\* C10: every control block's strong count is the number of strong handles
\* the threads hold (variables, and the locals of running operations) plus
\* one if the cell stores the control block; a payload is destroyed at most
\* once; and once the cell is destroyed and the threads have dropped their
\* handles every payload has been destroyed.
NoLeakThroughCell ==
    \A h \in Holders :
        /\ refcount[h] = StrongRefs(h) + DesRefs(h) + CellRefs(h)
        /\ dtors[h] <= 1
        /\ (StrongRefs(h) + DesRefs(h) + CellRefs(h) > 0) => payload[h] = "alive"
        /\ ( /\ cell = "destroyed"
             /\ \A t \in Threads : Idle(t)
             /\ \A i \in Slots : obj[i] = NULL
             /\ mem[h] # "unused" )
              => (dtors[h] = 1 /\ mem[h] = "freed")

\* The cell was built from a handle, is destroyed, and everything is freed.
C10Witness ==
    /\ cell = "destroyed"
    /\ \A t \in Threads : Idle(t)
    /\ \A i \in Slots : obj[i] = NULL
    /\ \A h \in Holders : dtors[h] = 1 /\ mem[h] = "freed"

\* -------------------------------------------------------------------- C11
Done(t) == prog[t] = 4 /\ Idle(t)

\* C11: in the handoff between a waiter (lock; wait(pred); clear pred;
\* unlock) and a notifier (lock; set pred; notify_one; unlock), under fair
\* scheduling wait(pred) returns only with pred true and holding the lock,
\* the waiter does return from it, and both threads run to their end.
Handoff ==
    /\ [][ (reg[Waiter].op = "wait_pred" /\ pc'[Waiter] = "idle")
             => (shutdown /\ locks'[Waiter]) ]_vars
    /\ <>(prog[Waiter] = 2 /\ Idle(Waiter) /\ shutdown)
    /\ <>[](Done(Waiter) /\ Done(Notifier) /\ ~shutdown)

\* The notifier has run from lock to unlock between the waiter's release of
\* the lock inside wait() and its park.
C11Witness ==
    /\ Done(Notifier)
    /\ pc[Waiter] = "cv_wait" /\ Waiter \notin parked
    /\ storage # reg[Waiter].h

\* -------------------------------------------------------------------- C12
Waiting(t) == reg[t].op \in {"wait", "wait_pred"}

\* C12: the exchange of wait() releases the caller's lock and leaves the
\* condition tag on the unchanged handle bits; while the caller is blocked
\* or contending again it does not hold the lock, and nobody holds it while
\* the tag is condition; wait() returns only from a successful acquisition,
\* so its caller holds the lock; wait(pred) tests pred only with the lock
\* held and returns only from a test that found it true.
WaitContract ==
    [][ \A t \in Threads :
          /\ (Waiting(t) /\ pc[t] = "sau" /\ pc'[t] # "sau")
                => /\ locks[t] /\ ~locks'[t]
                   /\ storage' = Bits(storage) + condition
          /\ (Waiting(t) /\ pc[t] \in {"cv_wait", "lal_load", "lal_switch", "lal_wait"})
                => ~locks[t]
          /\ TagOf(storage) = condition => \A u \in Threads : ~locks[u]
          /\ pc[t] = "pred" => locks[t]
          /\ (Waiting(t) /\ pc'[t] = "idle")
                => /\ locks'[t]
                   /\ TagOf(storage') \in {locked, waiting}
                   /\ reg[t].op = "wait" => pc[t] = "lal_switch"
                   /\ reg[t].op = "wait_pred" => (pc[t] = "pred" /\ stop_waiting)
        ]_vars

\* While one thread is blocked in wait(), another has taken the lock with
\* try_lock().
C12Witness ==
    \E t, u \in Threads :
        /\ Waiting(t) /\ pc[t] = "cv_wait" /\ t \in parked
        /\ locks[u] /\ pc[u] = "ret" /\ reg[u].op = "try_lock" /\ reg[u].ok

\* -------------------------------------------------------------------- C13
InWaitExpired(t) == reg[t].op = "wue"

\* C13: wait_until_expired() returns only from a load of the strong count
\* that read 0, or at once when the weak handle is null, so that the handle
\* is expired when it returns; and under fair scheduling a thread that is in
\* wait_until_expired() when the strong count is 0 returns.
WaitUntilExpired ==
    /\ [][ \A t \in Threads :
              /\ (pc'[t] = "wue_ret" /\ pc[t] # "wue_ret")
                    => \/ pc[t] = "idle" /\ wk[reg'[t].w] = NULL
                       \/ pc[t] = "wue_load" /\ refcount[reg[t].p] = 0
              /\ (pc[t] = "wue_ret" /\ pc'[t] = "idle")
                    => \/ wk'[reg[t].w] = NULL
                       \/ refcount'[wk'[reg[t].w]] = 0 ]_vars
    /\ \A t \in Threads :
          (InWaitExpired(t) /\ reg[t].p # NULL /\ refcount[reg[t].p] = 0)
              ~> ~InWaitExpired(t)

\* The last strong handle was released after the waiter's load of the
\* counter and before its wait.
C13Witness ==
    \E t \in Threads :
        /\ pc[t] = "wue_wait" /\ t \notin parked
        /\ reg[t].r > 0 /\ refcount[reg[t].p] = 0

\* -------------------------------------------------------------------- C14
\* C14: no step of lock(), try_lock(), unlock(), wait() or of a
\* notification changes the handle the cell stores: the handle changes only
\* in the compare_exchange of set(), which puts set's argument into the
\* cell, hands the handle the cell stored to the caller, and leaves the tag
\* and with it the lock where they were.
LockFrame ==
    [][ cell = "live" =>
          /\ HandleOf(storage') # HandleOf(storage)
                => \E t \in Threads : pc[t] = "set_cas" /\ pc'[t] = "ret"
          /\ \A t \in Threads :
                (pc[t] = "set_cas" /\ pc'[t] = "ret")
                   => /\ HandleOf(storage') = reg[t].des
                      /\ TagOf(storage') = TagOf(storage)
                      /\ reg'[t].p = HandleOf(storage)
                      /\ locks' = locks /\ locks[t]
          /\ \A t \in Threads :
                (pc[t] = "ret" /\ reg[t].op = "set" /\ pc'[t] = "idle")
                   => obj'[reg[t].dst] = reg[t].p ]_vars

\* The lock's holder has replaced a handle by another one while a second
\* thread waits for the lock.
C14Witness ==
    \E t \in Threads :
        /\ pc[t] = "ret" /\ reg[t].op = "set" /\ reg[t].p # NULL
        /\ HandleOf(storage) \notin {NULL, reg[t].p}
        /\ TagOf(storage) = waiting /\ parked # {}

\* -------------------------------------------------------------------- C15
\* C15: try_lock() never blocks; called while the tag is locked or waiting
\* it returns false and leaves the word as it is; when the tag is 0 or
\* condition and no other thread has changed the word since try_lock
\* loaded it, it returns true and the word becomes the same handle bits
\* with the tag locked; and it returns true only by taking a lock nobody
\* held.
TryLockContract ==
    [][ \A t \in Threads :
          /\ (pc'[t] # pc[t] /\ reg'[t].op = "try_lock") => t \notin parked'
          /\ (pc[t] = "idle" /\ reg'[t].op = "try_lock"
                 /\ TagOf(storage) \in {locked, waiting})
                => (pc'[t] = "ret" /\ ~reg'[t].ok /\ storage' = storage)
          /\ (pc[t] = "try_cas" /\ pc'[t] = "ret" /\ storage = reg[t].v)
                => /\ reg'[t].ok
                   /\ storage' = Bits(storage) + locked
          /\ (pc[t] = "try_cas" /\ pc'[t] = "ret" /\ reg'[t].ok)
                => /\ \A u \in Threads : ~locks[u]
                   /\ locks'[t] ]_vars

\* -------------------------------------------------------------------- C16
\* C16: a copy assignment or a move assignment whose source and destination
\* identify the same control block (one variable, two variables that share
\* a holder, or two empty ones) changes neither handle, no counter and no
\* payload, and starts no destruction.
SelfAssignment ==
    [][ \A t \in Threads, d, s \in Slots :
          ((CopyAssign(t, d, s) \/ MoveAssign(t, d, s)) /\ obj[d] = obj[s])
             => /\ obj' = obj
                /\ refcount' = refcount /\ weak' = weak
                /\ payload' = payload /\ dtors' = dtors
                /\ pc' = pc ]_vars

\* Two variables share a live holder and no operation is running: every
\* assignment between them, and of each to itself, is a self-assignment.
C16Witness ==
    /\ \A t \in Threads : Idle(t)
    /\ \E i, j \in Slots :
          /\ i # j /\ obj[i] # NULL /\ obj[i] = obj[j]
          /\ refcount[obj[i]] = 2 /\ payload[obj[i]] = "alive"

\* ---------------------------------------------------------------------- C17
\* C17: equality of handles is identity of the control block. A copy is equal
\* to its source; a move leaves the destination equal to what the source was
\* and the source empty; all empty handles are equal; a handle to a newly
\* created holder is unequal to every handle that existed before, whatever
\* the payloads are.
HandleEquality ==
    /\ [](\A i, j \in Slots :
            obj[i] = NULL /\ obj[j] = NULL => equals(i, j))
    /\ [][\A t \in Threads, i, j \in Slots :
            /\ Copy(t, i, j) => equals(i, j)'
            /\ Move(t, i, j) => obj'[j] = obj[i] /\ obj'[i] = NULL
                                  /\ (obj[i] # NULL => ~equals(i, j)')
            /\ (\E T \in PayloadTypes : emplace(t, i, T)) /\ i # j
                  => ~equals(i, j)']_vars

\* Two handles own separately created holders of one payload type.
C17Witness ==
    /\ obj[1] # NULL /\ obj[2] # NULL /\ obj[1] # obj[2]
    /\ vtype[obj[1]] = vtype[obj[2]]
    /\ \A t \in Threads : Idle(t)

\* ---------------------------------------------------------------------- C18
\* the handle a running cast was called on, and whether the cast has come
\* back with a pointer or a reference, or has thrown
CastOn(t)   == obj[reg[t].dst]
Returned(t, cast) == pc[t] = "cast_ret" /\ reg[t].op = cast
Threw(t, cast)    == pc[t] = "thrown" /\ reg[t].op = cast

\* C18: the exact cast compares type tags for identity. object_cast<T> on a
\* handle to a holder<T> yields the holder's live payload, at the same address
\* through every handle that shares the holder, and type() reports T; for
\* every other type U, a base class of T included, object_cast<U> fails (the
\* pointer form yields null, the reference form throws bad_object_cast); an
\* empty handle reports the null type tag.
ExactCast ==
    /\ [](\A t \in Threads :
           LET p == CastOn(t)
               match == p # NULL /\ vtype[p] = reg[t].ty
           IN  /\ Returned(t, "object_cast") /\ match
                    => reg[t].res = p /\ payload[p] = "alive"
               /\ Returned(t, "object_cast") /\ ~match
                    => reg[t].res = NULL /\ reg[t].form = "ptr"
               /\ Threw(t, "object_cast")
                    => ~match /\ reg[t].form = "ref"
                       /\ reg[t].err = "bad_object_cast"
               /\ \A u \in Threads :
                     /\ Returned(t, "object_cast") /\ Returned(u, "object_cast")
                     /\ CastOn(t) = CastOn(u) /\ reg[t].ty = reg[u].ty
                     => reg[t].res = reg[u].res)
    /\ [](\A i \in Slots : obj[i] = NULL => type(obj[i]) = "void")
    /\ [][\A t \in Threads, i \in Slots, T \in PayloadTypes :
            emplace(t, i, T) => type(obj[i])' = T]_vars

\* object_cast<tracker> on a handle to a holder<derived> has thrown while
\* the other thread's object_cast<derived> on a handle sharing the holder
\* has returned the payload.
C18Witness ==
    /\ Threw(1, "object_cast") /\ reg[1].ty = "tracker"
    /\ CastOn(1) # NULL /\ vtype[CastOn(1)] = "derived"
    /\ Returned(2, "object_cast") /\ reg[2].ty = "derived"
    /\ reg[2].dst # reg[1].dst /\ CastOn(2) = CastOn(1)
    /\ reg[2].res = CastOn(1)

\* ---------------------------------------------------------------------- C19
\* the handle of thread t's running cast holds a payload of a type derived
\* from the ValueType B the cast asks for
AsksBase(t) == CastOn(t) # NULL /\ IsBaseOf(reg[t].ty, vtype[CastOn(t)])
\* ... of the payload's own type
AsksSame(t) == CastOn(t) # NULL /\ reg[t].ty = vtype[CastOn(t)]

Fails(t) ==
    \/ CastOn(t) = NULL
    \/ IF reg[t].op = "polymorphic_object_cast"
       THEN ~Catches(reg[t].ty, vtype[CastOn(t)])
       ELSE reg[t].ty # vtype[CastOn(t)]

\* What a cast of the flavors cs owes its caller: the pointer form never
\* throws and yields null when the cast fails; the reference form throws
\* bad_object_cast when the cast fails.
FailureForms(cs) ==
    \A t \in Threads :
        reg[t].op \in cs =>
            /\ reg[t].form = "ptr"
                  => pc[t] = "cast_ret" /\ (Fails(t) => reg[t].res = NULL)
            /\ reg[t].form = "ref" /\ Fails(t)
                  => pc[t] = "thrown" /\ reg[t].err = "bad_object_cast"

\* A call of a cast changes no handle, no counter and no payload.
CastChangesNothing ==
    \A t \in Threads, i \in Slots, U \in CastTypes, cast \in Casts,
       form \in {"ptr", "ref"} :
        Cast(t, i, U, cast, form) => UNCHANGED <<heap, handles, vtype>>

AllElems(h, st) == \A k \in 1..Len(elems[h]) : elems[h][k] = st

\* C21: the elements of an array holder (T[] or T[N]) are constructed in the
\* order 0, 1, ..., n-1; they are destroyed only when the strong count has
\* come to zero, once each, in the order n-1, ..., 0; and all of them are
\* destroyed before the holder goes on to placeholder::destroy.
ArrayDestructionOrder ==
    /\ [][\A h \in Holders : \A k \in 1..Len(elems[h]) :
            vtype[h] \in {"tracker[]", "tracker[N]"} =>
              /\ elems[h][k] = "none" /\ elems'[h][k] # "none"
                    => /\ elems'[h][k] = "alive"
                       /\ \A j \in 1..Len(elems[h]) :
                             elems[h][j] = IF j < k THEN "alive" ELSE "none"
              /\ elems[h][k] = "alive" /\ elems'[h][k] # "alive"
                    => /\ elems'[h][k] = "destroyed"
                       /\ refcount[h] = 0
                       /\ \A j \in 1..Len(elems[h]) :
                             elems[h][j] = IF j <= k THEN "alive" ELSE "destroyed"
              /\ elems[h][k] = "destroyed" => elems'[h][k] = "destroyed"]_vars
    /\ [](\A t \in Threads :
            /\ pc[t] \in {"placeholder_destroy", "delete"}
            /\ vtype[reg[t].p] \in {"tracker[]", "tracker[N]"}
            => AllElems(reg[t].p, "destroyed"))

\* The last two of the three elements of a T[] are destroyed and the first
\* is still alive, while the other holder is a T[N] under construction.
C21Witness ==
    /\ vtype[1] = "tracker[]" /\ refcount[1] = 0
    /\ elems[1] = <<"alive", "destroyed", "destroyed">>
    /\ vtype[2] = "tracker[N]" /\ elems[2] = <<"alive", "alive", "none">>

\* ---------------------------------------------------------------------- C22
\* C22: a fam holder created with (n, args) has an array of length n from
\* its creation on; its elements are constructed in index order while the
\* head does not exist yet, and the head is constructed with all n elements
\* alive; when the last reference is released the head is destroyed with
\* all n elements alive, and then the elements in reverse index order.
FamBracket ==
    /\ [][\A h \in Holders : vtype[h] = "fam" =>
            /\ Len(elems'[h]) = Len(elems[h])
            /\ payload[h] # payload'[h]
                  => /\ AllElems(h, "alive") /\ elems'[h] = elems[h]
                     /\ payload[h] = "alive" => refcount[h] = 0
            /\ \A k \in 1..Len(elems[h]) :
                  /\ elems[h][k] = "none" /\ elems'[h][k] # "none"
                        => /\ elems'[h][k] = "alive" /\ payload[h] = "none"
                           /\ \A j \in 1..Len(elems[h]) :
                                 elems[h][j] = IF j < k THEN "alive" ELSE "none"
                  /\ elems[h][k] = "alive" /\ elems'[h][k] # "alive"
                        => /\ elems'[h][k] = "destroyed"
                           /\ payload[h] = "destroyed"
                           /\ \A j \in 1..Len(elems[h]) :
                                 elems[h][j] = IF j <= k THEN "alive"
                                               ELSE "destroyed"]_vars
    /\ [](\A h \in Holders : vtype[h] = "fam" =>
            /\ payload[h] = "alive" => AllElems(h, "alive")
            /\ mem[h] = "freed"
                  => payload[h] = "destroyed" /\ AllElems(h, "destroyed"))

\* The head of a fam with three elements is destroyed, and so is the last
\* element; the other fam's elements are under construction.
C22Witness ==
    /\ vtype[1] = "fam" /\ payload[1] = "destroyed"
    /\ elems[1] = <<"alive", "alive", "destroyed">>
    /\ vtype[2] = "fam" /\ payload[2] = "none"
    /\ elems[2] = <<"alive", "none", "none">>

\* ---------------------------------------------------------------------- C23
\* C23: after t = std::move(s) on string handles that refer to different
\* character arrays (or one of them to none), t refers to the array s
\* referred to, the array t referred to has lost exactly one strong
\* reference, and the strong count of s's former array has not changed.
StrMoveAssignStandard ==
    [][\A t \in Threads, d, s \in SSlots :
        StrMoveAssign(t, d, s) /\ str[d] # str[s] =>
            /\ str'[d] = str[s]
            /\ str[d] # NULL
                  => refcount'[str[d]] = release(refcount[str[d]])
            /\ str[s] # NULL => refcount'[str[s]] = refcount[str[s]]]_vars

\* ---------------------------------------------------------------------- C24
\* C24: for every non-null string handle s, however it was constructed and
\* after any copies and assignments, s.data()[s.size()] is the zero character
\* and s.size() is the length of the stored array minus one; a null string
\* handle has size 0 and its c_str() points to a zero character.
StringTerminator ==
    \A s \in SSlots :
        /\ Terminator(s) = "0"
        /\ size(s) = IF str[s] = NULL THEN 0 ELSE Len(elems[str[s]]) - 1

\* ---------------------------------------------------------------------- C25
\* C25: constructing a string handle from a generic handle that holds
\* something fails with bad_object_cast unless the held type is a character
\* array whose last element is the zero character, and a failed construction
\* mutates nothing: the argument, also when passed as an rvalue, refers to
\* the same holder and the strong counts are what they were.
StrFromObjectContract ==
    [][\A t \in Threads, s \in SSlots, i \in Slots, rvalue \in BOOLEAN :
        StrFromObject(t, s, i, rvalue) /\ obj[i] # NULL =>
            LET p == obj[i]
                good == /\ vtype[p] = "char[]" /\ Len(elems[p]) > 0
                        /\ elems[p][Len(elems[p])] = "0"
            IN  /\ good => pc'[t] = "str_ret" /\ str'[s] = p
                /\ ~good => /\ pc'[t] = "thrown"
                            /\ reg'[t].err = "bad_object_cast"
                /\ pc'[t] = "thrown"
                      => /\ obj' = obj /\ str' = str
                         /\ refcount' = refcount /\ weak' = weak]_vars

\* ---------------------------------------------------------------------- C26
\* What the construction of an object::fn<int(int)> from the generic handle
\* obj[i] does when handles whose value satisfies good are to be taken: the
\* new handle shares the holder, the strong count being one more for a copy
\* and the same for a move, which empties the argument; for the others it
\* throws object_not_fn and changes no handle and no counter.
FnFromObjectTakes(good(_)) ==
    \A t \in Threads, i, j \in Slots, rvalue \in BOOLEAN :
        FnFromObject(t, j, i, rvalue) =>
            LET p == obj[i]  IN
            IF good(p)
            THEN /\ pc'[t] = "fn_ret" /\ obj'[j] = p
                 /\ obj'[i] = IF rvalue THEN NULL ELSE p
                 /\ refcount' = IF rvalue \/ p = NULL THEN refcount
                                ELSE [refcount EXCEPT ![p] = addref(@)]
                 /\ weak' = weak
            ELSE /\ pc'[t] = "thrown" /\ reg'[t].err = "object_not_fn"
                 /\ obj' = obj /\ refcount' = refcount /\ weak' = weak

HasFnTag(p) == type(p) = "int(int)"
EmptyOrFnTag(p) == p = NULL \/ type(p) = "int(int)"

\* C26 as stated: the construction fails with object_not_fn unless the
\* handle's runtime type tag is R(A...).
FnFromObjectAsClaimed == [][FnFromObjectTakes(HasFnTag)]_vars

\* C26, amended: the construction fails with object_not_fn unless the handle
\* is empty or its runtime type tag is R(A...); from an empty handle the new
\* handle is empty.
FnFromObjectContract == [][FnFromObjectTakes(EmptyOrFnTag)]_vars

\* The callable handle was copy-constructed from a generic handle, with
\* which it now shares the holder.
C26Witness ==
    \E t \in Threads :
        /\ pc[t] = "fn_ret" /\ reg[t].op = "fn_from_object"
        /\ obj[1] # NULL /\ obj[2] = obj[1] /\ refcount[obj[1]] = 2

\* ---------------------------------------------------------------------- C27
\* C27: the call of an empty owning callable handle throws object_not_fn and
\* calls nothing; constructing the callable reference from an empty owning
\* handle, or from a generic handle that is empty or whose type is not
\* R(A...), throws object_not_fn (and leaves the reference as it was).
EmptyCallables ==
    [][\A t \in Threads, i \in Slots :
        /\ \A x \in 0..1 :
              FnInvoke(t, i, x) /\ obj[i] = NULL
                  => /\ pc'[t] = "thrown" /\ reg'[t].err = "object_not_fn"
                     /\ seed' = seed
        /\ RefFromHandle(t, i)
              /\ (obj[i] = NULL \/ (i \notin FnVars /\ ~HasFnTag(obj[i])))
              => /\ pc'[t] = "thrown" /\ reg'[t].err = "object_not_fn"
                 /\ gref' = gref]_vars

\* The call of the empty owning handle has thrown, and so has the
\* construction of a reference from a generic handle that holds a tracker.
C27Witness ==
    /\ pc[1] = "thrown" /\ reg[1].op = "fn_call" /\ obj[reg[1].dst] = NULL
    /\ reg[1].err = "object_not_fn"
    /\ pc[2] = "thrown" /\ reg[2].op = "ref_from" /\ obj[reg[2].dst] # NULL
    /\ vtype[obj[reg[2].dst]] = "tracker"

\* ---------------------------------------------------------------------- C28
\* C28: a callable reference g made from the owning handle f is an alias of
\* f: a call g(x) returns what f(x) would return now and changes the state
\* of the callable f holds now as f(x) would (also after f was reassigned),
\* and throws object_not_fn when f is empty; g.object() equals f; a
\* reference made from another callable converts to an empty handle.
RefIsAlias ==
    /\ [][\A t \in Threads, x \in 0..1 :
            RefInvoke(t, x) /\ gref.f = "callobj" /\ gref.o \in FnVars =>
                LET h == obj[gref.o]  IN
                IF h = NULL
                THEN /\ pc'[t] = "thrown" /\ reg'[t].err = "object_not_fn"
                     /\ seed' = seed
                ELSE /\ pc'[t] = "fn_ret"
                     /\ reg'[t].ret = Result(h, x)
                     /\ seed' = Called(h)
                     /\ \A u \in Threads :
                           ENABLED FnInvoke(u, gref.o, x) =>
                               ENABLED (/\ FnInvoke(u, gref.o, x)
                                        /\ reg'[u].ret = Result(h, x)
                                        /\ seed' = Called(h))]_vars
    /\ [](gref.f = "callobj" /\ gref.o \in FnVars => ref_object = obj[gref.o])
    /\ [](gref.f = "thunk" => ref_object = NULL)

\* g was made from f, f was given a new callable afterwards, a lambda, and
\* a call through g has returned that lambda's result after an earlier call.
C28Witness ==
    \E t \in Threads :
        /\ gref = RefTo(1) /\ obj[1] = 2 /\ mem[1] = "freed"
        /\ vtype[2] = "lambda" /\ seed[2] = 2
        /\ pc[t] = "fn_ret" /\ reg[t].op = "ref_call" /\ reg[t].ret = 2

\* ---------------------------------------------------------------------- C29
\* C29: the interior pointer of every aliasing pointer and reference is null
\* or points into the storage of the holder that the handle part of the same
\* object keeps alive; an object whose handle part is empty has a null
\* interior pointer and tests false.
AliasingInvariant ==
    \A a \in ASlots : Constructed(a) =>
        /\ \/ alias[a].p = NULL
           \/ /\ alias[a].h # NULL /\ Into(alias[a].p) = alias[a].h
              /\ payload[alias[a].h] = "alive"
        /\ alias[a].h = NULL => alias[a].p = NULL /\ ~operator_bool(a)

\* ---------------------------------------------------------------------- C30
\* C30: an aliasing pointer or reference to T built from a handle alone
\* succeeds only when the holder's type is exactly T and otherwise fails
\* with bad_object_cast, also for a base class of the held type; built from
\* a handle and a null raw pointer it succeeds when T is the held type or a
\* base class of it; a raw pointer that is not null becomes the interior
\* pointer as it is; the reference fails with bad_object_cast whenever its
\* interior pointer would be null: for an empty handle and for an aliasing
\* pointer that is null.
AliasingConstruction ==
    [][\A t \in Threads, a \in ASlots, K \in {"ptr", "ref"}, T \in AliasTypes :
          \* a constructor of variable a either throws or constructs a
          /\ Idle(t) /\ ~Constructed(a)
          /\ \/ pc'[t] = "thrown" /\ reg'[t].a = a /\ reg'[t].form = K
                /\ reg'[t].ty = T
             \/ alias'[a].k = K /\ alias'[a].T = T
          => \A rvalue \in BOOLEAN :
          LET Built(h, q) ==
                  /\ alias'[a] = [k |-> K, T |-> T, h |-> h, p |-> q]
                  /\ pc'[t] = "idle"
              Failed ==
                  /\ pc'[t] = "thrown" /\ reg'[t].err = "bad_object_cast"
                  /\ alias' = alias /\ obj' = obj /\ refcount' = refcount
              Null(h) == IF K = "ptr" THEN Built(h, NULL) ELSE Failed
          IN  /\ \A i \in Slots :
                    /\ AliasFromObject(t, a, i, rvalue, K, T) =>
                          IF obj[i] = NULL THEN Null(NULL)
                          ELSE IF type(obj[i]) = T THEN Built(obj[i], obj[i])
                          ELSE Failed
                    /\ \A rawp \in RawPointers(i) :
                          AliasFromObjectRaw(t, a, i, rvalue, K, T, rawp) =>
                              IF rawp # NULL THEN Built(obj[i], rawp)
                              ELSE IF obj[i] = NULL THEN Null(NULL)
                              ELSE IF \/ Held(obj[i]) = T
                                      \/ IsBaseOf(T, Held(obj[i]))
                              THEN Built(obj[i], obj[i])
                              ELSE Failed
              /\ \A b \in ASlots :
                    RefFromPtr(t, b, a, rvalue, T) /\ alias[b].p = NULL
                        => Failed]_vars

\* A reference to the base class tracker shares a holder of the class
\* derived, and the construction of an aliasing object to tracker from that
\* handle alone has failed.
C30Witness ==
    \E h \in Holders :
        /\ obj[1] = h /\ vtype[h] = "derived"
        /\ alias[1] = [k |-> "ref", T |-> "tracker", h |-> h, p |-> h]
        /\ pc[1] = "thrown" /\ reg[1].op = "alias_from" /\ reg[1].a = 2
        /\ reg[1].dst = 1 /\ reg[1].ty = "tracker"
        /\ reg[1].err = "bad_object_cast"

\* ---------------------------------------------------------------------- C31
\* The owning handles that refer to h, the aliasing variables included
Owners(h) == StrongRefs(h) + Cardinality({a \in ASlots : alias[a].h = h})

\* C31: from a raw pointer to the payload of a live holder, object::from and
\* ptr<T>::from give a handle that is equal to the handles of that holder
\* and add exactly one to its strong count; once the handle they returned
\* and all the others are destroyed the payload has been destroyed exactly
\* once.
SharedFromThis ==
    /\ [][\A t \in Threads, h \in Holders :
            /\ \A i \in Slots :
                  From(t, i, h) =>
                      /\ obj'[i] = h
                      /\ \A j \in Slots : obj[j] = h => equals(i, j)'
                      /\ refcount' = [refcount EXCEPT ![h] = refcount[h] + 1]
            /\ \A a \in ASlots :
                  PtrFrom(t, a, h) =>
                      /\ alias'[a].h = h /\ alias'[a].p = h
                      /\ \A j \in Slots : obj[j] = h => alias'[a].h = obj'[j]
                      /\ refcount' = [refcount EXCEPT ![h] = refcount[h] + 1]]_vars
    /\ [](\A h \in Holders :
            /\ dtors[h] <= 1
            /\ Owners(h) > 0 => dtors[h] = 0 /\ payload[h] = "alive"
            /\ (/\ mem[h] # "unused" /\ Owners(h) = 0 /\ raw[h] = 0
                /\ \A t \in Threads : Idle(t))
                  => dtors[h] = 1 /\ payload[h] = "destroyed")

\* The payload of a holder that a handle from object::from and one from
\* ptr<T>::from had shared with the original handle is destroyed, once.
C31Witness ==
    \E h \in Holders :
        /\ dtors[h] = 1 /\ Owners(h) = 0 /\ raw[h] = 0
        /\ \A t \in Threads : Idle(t)
        /\ \E g \in Holders : g # h /\ refcount[g] = 3 /\ raw[g] = 0
                              /\ alias[1].h = g /\ obj[1] = g /\ obj[2] = g

\* ---------------------------------------------------------------------- C32
\* C32 as stated: release() empties the handle and returns the pointer
\* without a decrement, and re-adopting that pointer with from does not
\* increment the strong count.
HandOffAsClaimed ==
    [][\A t \in Threads, i \in Slots, h \in Holders :
          /\ Release(t, i) => refcount' = refcount /\ obj'[i] = NULL
          /\ From(t, i, h) /\ raw[h] > 0 => refcount' = refcount]_vars

\* C32 as amended: release() empties the handle and hands out the pointer
\* without a decrement; the explicit constructor object(handle) adopts the
\* pointer without an increment, so release() followed by that adoption
\* leaves the strong count as it was (it is the number of owning handles
\* plus the detached pointers throughout), and the destruction of the
\* adopting handle decrements it once; object::from adds one and leaves the
\* detached pointer's reference with the caller.
HandOff ==
    /\ [][\A t \in Threads, i \in Slots :
            /\ Release(t, i) =>
                  /\ refcount' = refcount /\ obj'[i] = NULL
                  /\ raw' = [raw EXCEPT ![obj[i]] = raw[obj[i]] + 1]
            /\ Adopt(t, i) =>
                  /\ refcount' = refcount /\ obj'[i] # NULL
                  /\ raw' = [raw EXCEPT ![obj'[i]] = raw[obj'[i]] - 1]
            /\ Destroy(t, i) /\ obj[i] # NULL =>
                  refcount' = [refcount EXCEPT ![obj[i]] = refcount[obj[i]] - 1]
            /\ \A h \in Holders :
                  From(t, i, h) /\ raw[h] > 0 =>
                      /\ refcount' = [refcount EXCEPT ![h] = refcount[h] + 1]
                      /\ raw' = raw]_vars
    /\ [](\A h \in Holders : refcount[h] = Owners(h) + raw[h])

\* release() has detached a pointer to g, whose count still includes it,
\* and a handle made from that pointer has added one; nothing of the other
\* holder is detached and its count is its one handle.
C32Witness ==
    \E h, g \in Holders :
        /\ obj[1] = h /\ refcount[h] = 1 /\ raw[h] = 0 /\ frees[g] = 0
        /\ obj[2] = g /\ raw[g] = 1 /\ refcount[g] = 2 /\ g < h

\* ---------------------------------------------------------------------- C33
\* The cobjects that hold a handle to h
CobjRefs(h) == Cardinality({c \in CSlots : cobj[c] = h})

\* C33: cobject_handle_copy(p) adds exactly one to the strong count of p
\* and gives p, cobject_handle_clear(p) takes exactly one off and destroys
\* the payload when the count reaches 0; so a cobject_copy of a cobject with
\* a handle and a cobject_clear of the copy leave the count as it was, and
\* when every cobject that held the handle is cleared every reference they
\* took is released: the count is the number of handles, detached pointers
\* and cobjects that refer to the holder.
FfiHooks ==
    /\ [][\A t \in Threads, c \in CSlots :
            /\ \A d \in CSlots \ {c} :
                  cobject_copy(t, c, d) /\ cobj[c] # NULL /\ cobj[d] = NULL =>
                      /\ cobj' = [cobj EXCEPT ![d] = cobj[c]]
                      /\ refcount' = [refcount EXCEPT
                                         ![cobj[c]] = refcount[cobj[c]] + 1]
                      /\ UNCHANGED <<weak, mem, payload, dtors, frees>>
            /\ cobject_clear(t, c) /\ cobj[c] # NULL =>
                  /\ cobj' = [cobj EXCEPT ![c] = NULL]
                  /\ refcount' = [refcount EXCEPT
                                     ![cobj[c]] = refcount[cobj[c]] - 1]
                  /\ dtors' = [dtors EXCEPT ![cobj[c]] =
                                  IF refcount[cobj[c]] = 1 THEN 1 ELSE 0]
                  /\ payload'[cobj[c]] =
                        IF refcount[cobj[c]] = 1 THEN "destroyed" ELSE "alive"]_vars
    /\ [](\A h \in Holders :
            /\ refcount[h] = StrongRefs(h) + raw[h] + CobjRefs(h)
            /\ dtors[h] <= 1
            /\ CobjRefs(h) > 0 => payload[h] = "alive")

\* Both cobjects hold the handle that a strong handle holds too, and the
\* other holder, that nothing refers to any more, is destroyed and freed.
C33Witness ==
    \E h, g \in Holders :
        /\ CobjRefs(h) = 2 /\ StrongRefs(h) = 1 /\ refcount[h] = 3
        /\ g # h /\ dtors[g] = 1 /\ mem[g] = "freed" /\ refcount[g] = 0
        /\ \A t \in Threads : Idle(t)

\* ---------------------------------------------------------------------- C34
\* C34: for a variable-array handle of length n, size() is n, at(i) returns
\* element i for every i < n and fails with out_of_range for every i >= n,
\* for every i when the handle is empty; a failure changes neither the
\* handle nor the elements nor any counter.
BoundsCheckedAccess ==
    /\ [][\A t \in Threads, i \in Slots, k \in 0..(MaxLen + 1) :
            VecAt(t, i, k) =>
                /\ IF obj[i] # NULL /\ k < Len(elems[obj[i]])
                   THEN /\ pc'[t] = "at_ret" /\ reg'[t].h = obj[i]
                        /\ reg'[t].ret = k + 1
                        /\ elems[obj[i]][reg'[t].ret] = "alive"
                   ELSE /\ pc'[t] = "thrown"
                        /\ reg'[t].err = "out_of_range"
                /\ UNCHANGED <<heap, handles, elems>>]_vars
    \* size() is the n the array was created with, all n elements alive
    /\ [][/\ \A t \in Threads, i \in Slots, n \in 0..MaxLen :
              ArrayCreate(t, i, "tracker[]", n) => Len(elems'[reg'[t].p]) = n
          /\ \A h \in Holders :
              mem[h] = "live" => Len(elems'[h]) = Len(elems[h])]_vars
    /\ [](\A i \in Slots :
            obj[i] # NULL =>
                /\ vec_size(i) = Len(elems[obj[i]])
                /\ \A e \in 1..vec_size(i) : elems[obj[i]][e] = "alive")

\* Of an array of three elements one thread has got the last element from
\* at(2) while at(3) has failed in the other.
C34Witness ==
    \E i \in Slots :
        /\ obj[i] # NULL /\ vec_size(i) = MaxLen
        /\ pc[1] = "at_ret" /\ reg[1].dst = i /\ reg[1].v = MaxLen - 1
        /\ reg[1].ret = MaxLen
        /\ pc[2] = "thrown" /\ reg[2].op = "at" /\ reg[2].v = MaxLen
        /\ obj[reg[2].dst] = obj[i]

\* -------------------------------------------------------------------- C35
\* The threads that hold the mutex of the cell
Holding == {t \in Threads : locks[t]}

\* The threads inside lock_and_load that are in its waiting branch or are
\* loading the word again after it
Contending == {t \in Threads : pc[t] \in {"lal_wait", "lal_load"}}

\* The threads blocked in the storage.wait(v) of lock_and_load
ParkedForLock == {t \in parked : pc[t] = "lal_wait"}

\* The statement as written: the tag alone tells who holds the mutex and
\* whether a thread is parked for it.
TagMeaningAsClaimed ==
    cell = "live" =>
        /\ TagOf(storage) = 0 => (Holding = {} /\ ParkedForLock = {})
        /\ TagOf(storage) = locked => Cardinality(Holding) = 1
        /\ TagOf(storage) = waiting =>
                (Cardinality(Holding) = 1 /\ ParkedForLock # {})
        /\ TagOf(storage) = condition => Holding = {}

\* C35: tag 0 and tag condition mean that no thread holds the mutex; tag
\* locked and tag waiting mean that exactly one thread holds it; under tag
\* waiting some thread is inside lock_and_load, parked, on its way to
\* storage.wait or loading the word again after it; a thread parked for the mutex while nobody
\* holds it was parked on a waiting-tagged word whose release has exchanged
\* the word and has its notify_all still to run.
TagMeaning ==
    cell = "live" =>
        /\ TagOf(storage) \in {0, condition} <=> Holding = {}
        /\ TagOf(storage) \in {locked, waiting} <=> Cardinality(Holding) = 1
        /\ TagOf(storage) = waiting => Contending # {}
        /\ \A t \in ParkedForLock :
              /\ TagOf(reg[t].v) = waiting
              /\ Holding = {} => \E u \in Threads : pc[u] = "sau_notify"

\* A release has exchanged a waiting-tagged word for an unlocked one and the
\* thread parked for the mutex has not been notified yet.
C35Witness ==
    /\ cell = "live" /\ TagOf(storage) = 0
    /\ \E t \in ParkedForLock, u \in Threads :
          pc[u] = "sau_notify" /\ reg[u].op = "unlock"

\* -------------------------------------------------------------------- C36
\* The steps inside lock(), unlock(), exchange() and wait()
MutexStep(t) ==
    \/ LalLoad(t) \/ LalCas(t) \/ LalWait(t)
    \/ SauXchg(t) \/ SauNotify(t) \/ CvWait(t) \/ Return(t)

\* Threads that lock and unlock the cell, exchange its handle, wait on it
\* as a condition variable and notify it.
MutexNext ==
    \E t \in Threads :
        \/ \E i \in Slots : \/ Make(t, i) \/ CellCtor(t, i)
                             \/ Exchange(t, i, "exchange")
        \/ Lock(t) \/ Unlock(t) \/ Wait(t) \/ NotifyAll(t)
        \/ SpuriousWake(t)
        \/ MutexStep(t)

\* Every thread is scheduled fairly inside an operation it has begun, and a
\* thread that holds the lock and does not wait unlocks it; a blocked
\* std::atomic::wait is woken by a notification, a spurious wake-up is
\* possible and not promised.
MutexSpec ==
    /\ Init /\ [][MutexNext]_vars
    /\ \A t \in Threads : WF_vars(MutexStep(t)) /\ WF_vars(Unlock(t))

\* Thread t is inside lock_and_load
InLockAndLoad(t) == pc[t] \in {"lal_load", "lal_switch", "lal_wait"}

\* C36: a thread parks in lock_and_load only on a waiting-tagged value that
\* the word holds; the release of a waiting-tagged word is followed by a
\* notify_all that leaves no thread parked; a thread parked for the mutex
\* while nobody holds it is woken; and while a thread is inside
\* lock_and_load, a held mutex is released and a free one is acquired by
\* some thread.
NoLostWakeup ==
    /\ [][ \A t \in Threads :
            /\ (pc[t] = "lal_wait" /\ t \notin parked /\ t \in parked')
                  => (TagOf(reg[t].v) = waiting /\ storage = reg[t].v)
            /\ (pc[t] = "sau" /\ pc'[t] # "sau")
                  => (TagOf(storage) = waiting <=> pc'[t] = "sau_notify")
            /\ (pc[t] = "sau_notify" /\ pc'[t] # "sau_notify")
                  => parked' = {}
          ]_vars
    /\ \A t \in Threads :
          /\ (t \in ParkedForLock /\ Holding = {}) ~> (t \notin parked)
          /\ (InLockAndLoad(t) /\ Holding = {}) ~> (Holding # {})
          /\ \A u \in Threads :
                (InLockAndLoad(t) /\ locks[u]) ~> ~locks[u]

\* One thread is parked for the mutex that the other holds.
C36Witness ==
    \E t \in ParkedForLock, u \in Holding :
        /\ Idle(u) /\ TagOf(storage) = waiting /\ storage = reg[t].v

\* -------------------------------------------------------------------- C37
\* cvm.notify_all(), called by the notifier inside its critical section
NotifierNotifyAll ==
    prog[Notifier] = 2 /\ NotifyAllCall(Notifier) /\ Advance(Notifier)

\* The notifier locks the cell again after its critical section ...
NotifierRelock == prog[Notifier] = 4 /\ LockCall(Notifier) /\ Advance(Notifier)

\* ... and calls wait() itself
NotifierRewait == prog[Notifier] = 5 /\ WaitCall(Notifier) /\ Advance(Notifier)

RewaitWaiter == WaiterLock \/ WaiterWait \/ Inside(Waiter)

RewaitNotifier ==
    \/ NotifierCtor \/ NotifierLock \/ NotifierSet \/ NotifierNotifyAll
    \/ NotifierUnlock \/ NotifierRelock \/ NotifierRewait \/ Inside(Notifier)

RewaitNext ==
    \/ RewaitWaiter \/ RewaitNotifier
    \/ \E t \in {Waiter, Notifier} : SpuriousWake(t)

\* One thread waits for the predicate; the other sets it and notifies all
\* inside a critical section, and afterwards locks the cell and waits on it
\* too. Both threads are scheduled fairly; a blocked std::atomic::wait is
\* woken by a notification, a spurious wake-up is possible and not promised.
RewaitSpec ==
    Init /\ [][RewaitNext]_vars /\ WF_vars(RewaitWaiter) /\ WF_vars(RewaitNotifier)

\* The waiter is inside wait(pred) and has released the lock, and the holder
\* of the lock has made the predicate true and has called notify_all.
Notified ==
    /\ reg[Waiter].op = "wait_pred" /\ pc[Waiter] = "cv_wait"
    /\ prog[Notifier] = 3 /\ locks[Notifier] /\ shutdown

\* C37: once the waiter has released the lock inside wait(pred) and a holder
\* of the lock has afterwards made the predicate true and called notify_all,
\* the waiter returns from wait(pred), whatever the other thread does with
\* the cell afterwards.
ConditionWakeup ==
    Notified ~> (prog[Waiter] = 2 /\ Idle(Waiter) /\ locks[Waiter])

\* -------------------------------------------------------------------- C38
\* new holder(true, args...) fails: operator new throws std::bad_alloc and
\* nothing was allocated, or the payload's constructor throws and the new
\* expression frees the allocation, in which no payload ever lived.
CreateFails(t, i, T) ==
    /\ \/ /\ UNCHANGED <<mem, frees>>
          /\ Goto(t, "thrown", [NoReg EXCEPT !.op = "emplace", !.dst = i,
                                             !.ty = T, !.err = "bad_alloc"])
       \/ \E h \in Holders :
             /\ Fresh(h)
             /\ mem'   = [mem   EXCEPT ![h] = "freed"]
             /\ frees' = [frees EXCEPT ![h] = @ + 1]
             /\ Goto(t, "thrown", [NoReg EXCEPT !.op = "emplace", !.dst = i,
                                                !.ty = T, !.err = "constructor"])
    /\ UNCHANGED <<refcount, weak, payload, dtors, vtype>>

\* Mutant of object_emplace: the handle gives up the previous holder before
\* the new one is created, so a failure leaves it empty.
ReleaseThenConstruct(t, i, T) ==
    /\ Idle(t) /\ ~Busy(i)
    /\ \/ /\ CreateFails(t, i, T)
          /\ obj' = [obj EXCEPT ![i] = NULL]
       \/ /\ \E h \in Holders : /\ Fresh(h) /\ create(h)
                                 /\ obj' = [obj EXCEPT ![i] = h]
                                 /\ vtype' = [vtype EXCEPT ![h] = T]
          /\ IF obj[i] = NULL THEN UNCHANGED <<pc, reg>>
             ELSE Goto(t, "dtor", [NoReg EXCEPT !.op = "emplace", !.dst = i,
                                                !.p = obj[i], !.own = TRUE])
    /\ UNCHANGED <<wk, str, raw, cellv>>
    /\ UNCHANGED <<shutdown, prog, ext>>

\* emplace<T>(args...) on a handle that may hold something:
\* auto q = holder<U>::create(args...); object old(std::exchange(p, q));
\* return q->value(); ~object() of old runs when emplace returns.
object_emplace(t, i, T) ==
    /\ Idle(t) /\ ~Busy(i)
    /\ \/ /\ CreateFails(t, i, T)
          /\ UNCHANGED obj
       \/ /\ \E h \in Holders : /\ Fresh(h) /\ create(h)
                                 /\ obj' = [obj EXCEPT ![i] = h]
                                 /\ vtype' = [vtype EXCEPT ![h] = T]
          /\ IF obj[i] = NULL THEN UNCHANGED <<pc, reg>>
             ELSE Goto(t, "dtor", [NoReg EXCEPT !.op = "emplace", !.dst = i,
                                                !.p = obj[i], !.own = TRUE])
    /\ UNCHANGED <<wk, str, raw, cellv>>
    /\ UNCHANGED <<shutdown, prog, ext>>

\* Threads that emplace into handles that hold something or nothing, copy
\* and destroy them.
EmplaceNext ==
    \E t \in Threads :
        \/ \E i \in Slots : \/ Destroy(t, i)
                             \/ \E T \in {"tracker", "int"} : object_emplace(t, i, T)
        \/ \E i, j \in Slots : Copy(t, i, j)
        \/ TempDtor(t) \/ HolderDestroy(t) \/ PlaceholderDestroy(t) \/ Delete(t)
        \/ Caught(t)

EmplaceSpec == Init /\ [][EmplaceNext]_vars

\* C38: an emplace that succeeds leaves the handle on a new holder with a
\* live payload and one reference, and has not yet touched the previous
\* holder: its counters and payload are as before and its release is still
\* to run; that release finds the new payload alive in the handle; an
\* emplace that fails, in the allocation or in the payload's constructor,
\* leaves every handle, counter and payload as it was.
ConstructThenRelease ==
    [][ /\ \A h \in Holders, i \in Slots :
              (mem[h] = "unused" /\ mem'[h] = "live" /\ obj'[i] = h)
                 => /\ payload'[h] = "alive" /\ refcount'[h] = 1 /\ weak'[h] = 1
                    /\ \A g \in Holders \ {h} :
                          /\ refcount'[g] = refcount[g] /\ weak'[g] = weak[g]
                          /\ payload'[g] = payload[g] /\ dtors'[g] = dtors[g]
                    /\ \A j \in Slots \ {i} : obj'[j] = obj[j]
                    /\ obj[i] # NULL =>
                          \E t \in Threads :
                              /\ Idle(t) /\ pc'[t] = "dtor"
                              /\ reg'[t].p = obj[i] /\ reg'[t].dst = i
        /\ \A t \in Threads :
              /\ (pc[t] = "dtor" /\ reg[t].op = "emplace" /\ pc'[t] # "dtor")
                    => /\ obj[reg[t].dst] \notin {NULL, reg[t].p}
                       /\ payload[obj[reg[t].dst]] = "alive"
                       /\ refcount'[reg[t].p] = release(refcount[reg[t].p])
              /\ (Idle(t) /\ pc'[t] = "thrown")
                    => /\ obj' = obj /\ refcount' = refcount /\ weak' = weak
                       /\ payload' = payload /\ dtors' = dtors
      ]_vars

\* emplace has failed on a handle that holds a live payload which another
\* handle shares.
C38Witness ==
    \E t \in Threads :
        /\ pc[t] = "thrown" /\ reg[t].op = "emplace"
        /\ obj[reg[t].dst] # NULL
        /\ payload[obj[reg[t].dst]] = "alive"
        /\ refcount[obj[reg[t].dst]] = 2

\* emplace has put a new payload into a handle whose previous payload is
\* still alive and about to be released.
C38Replaced ==
    \E t \in Threads :
        /\ pc[t] = "dtor" /\ reg[t].op = "emplace"
        /\ payload[reg[t].p] = "alive" /\ refcount[reg[t].p] = 1
        /\ payload[obj[reg[t].dst]] = "alive"

\* -------------------------------------------------------------------- C39
\* holder<T, U[]>(n, args...): the base held<U[]>(n, this + 1) has
\* constructed the n trailing elements and holder<T>::construct(args...) in
\* the constructor's body throws. The bases are destroyed by their implicit
\* destructors, which run no element's destructor, and the new expression
\* of create() calls held<U[]>::operator delete(ptr, n).
HeadThrows(t) ==
    /\ pc[t] = "construct"
    /\ vtype[reg[t].p] = "fam" /\ reg[t].r = Len(elems[reg[t].p])
    /\ mem'   = [mem   EXCEPT ![reg[t].p] = "freed"]
    /\ frees' = [frees EXCEPT ![reg[t].p] = @ + 1]
    /\ Goto(t, "thrown", [reg[t] EXCEPT !.op = "fam", !.err = "constructor"])
    /\ UNCHANGED <<refcount, weak, payload, dtors, handles, cellv>>
    /\ UNCHANGED user

\* Threads that construct flexible-array holders, whose head's constructor
\* may throw, and destroy them.
FamNext ==
    \E t \in Threads :
        \/ \E i \in Slots, n \in 0..MaxLen : ArrayCreate(t, i, "fam", n)
        \/ Construct(t) \/ HeadThrows(t) \/ Caught(t)
        \/ \E i \in Slots : Destroy(t, i)
        \/ ArrayDestroy(t) \/ Destruct(t) \/ PlaceholderDestroy(t) \/ Delete(t)

FamSpec == Init /\ [][FamNext]_vars

\* C39: when the failure of the head's constructor reaches the caller, the
\* allocation is freed and every trailing element has been destroyed, and
\* no freed allocation has a trailing element that is still alive.
FailedFamCleanup ==
    /\ \A t \in Threads :
          (pc[t] = "thrown" /\ reg[t].op = "fam")
             => /\ mem[reg[t].p] = "freed" /\ frees[reg[t].p] = 1
                /\ \A k \in 1..Len(elems[reg[t].p]) :
                      elems[reg[t].p][k] = "destroyed"
    /\ \A h \in Holders :
          mem[h] = "freed" => \A k \in 1..Len(elems[h]) : elems[h][k] # "alive"

\* -------------------------------------------------------------------- C40
\* wait(object old) called with std::move(variable i):
\* o = old.p; v = o; the loop test o == (v & ~mask) holds the first time
WaitOld(t, i) ==
    /\ CanCall(t) /\ ~locks[t] /\ ~Busy(i)
    /\ obj' = [obj EXCEPT ![i] = NULL]
    /\ Goto(t, "wo_wait", [NoReg EXCEPT !.op = "wait_old", !.p = obj[i],
                                        !.own = TRUE, !.v = AddrOf(obj[i])])
    /\ UNCHANGED <<heap, wk, str, raw, cellv>>
    /\ UNCHANGED user

\* wait(old): storage.wait(v, order) returns when the word is not v, and
\* blocks the thread while it is.
WoWait(t) ==
    /\ pc[t] = "wo_wait" /\ t \notin parked
    /\ IF storage # reg[t].v
       THEN Goto(t, "wo_load", reg[t]) /\ UNCHANGED parked
       ELSE parked' = parked \cup {t} /\ UNCHANGED <<pc, reg>>
    /\ UNCHANGED <<heap, handles, cell, storage, locks>>
    /\ UNCHANGED user

\* What wait(old) does with the word w it has loaded: while o == (v & ~mask)
\* it waits again, otherwise it returns and ~object() of old runs.
WoTest(t, w) ==
    IF AddrOf(reg[t].p) = w
    THEN Goto(t, "wo_wait", [reg[t] EXCEPT !.v = storage])
    ELSE IF reg[t].p = NULL
         THEN Goto(t, "idle", NoReg)
         ELSE Goto(t, "dtor", [NoReg EXCEPT !.p = reg[t].p, !.own = TRUE])

\* Mutant of WoLoad: the loop compares the whole word, tag included, with o.
WoLoadTagged(t) ==
    /\ pc[t] = "wo_load"
    /\ WoTest(t, storage)
    /\ UNCHANGED <<heap, handles, cellv>>
    /\ UNCHANGED user

\* wait(old): v = storage.load(relaxed); while (o == (v & ~mask))
WoLoad(t) ==
    /\ pc[t] = "wo_load"
    /\ WoTest(t, Bits(storage))
    /\ UNCHANGED <<heap, handles, cellv>>
    /\ UNCHANGED user

\* Thread t is inside wait(old)
InWaitOld(t) == pc[t] \in {"wo_wait", "wo_load"} /\ reg[t].op = "wait_old"

\* cell.store(std::move(variable i)), once
NotifierStore ==
    /\ prog[Notifier] = 0
    /\ \E i \in Slots : ExchangeCall(Notifier, i, "store")
    /\ Advance(Notifier)

\* cell.notify_all() after the store has returned
NotifierAnnounce ==
    prog[Notifier] = 1 /\ NotifyAllCall(Notifier) /\ Advance(Notifier)

\* The steps inside lock(), unlock(), load(), store() and wait(old), and the
\* destructors they run
ValueWaitStep(t) ==
    \/ LalLoad(t) \/ LalCas(t) \/ LalWait(t) \/ LoadAddref(t)
    \/ SauXchg(t) \/ SauNotify(t) \/ Return(t)
    \/ WoWait(t) \/ WoLoad(t)
    \/ TempDtor(t) \/ HolderDestroy(t) \/ PlaceholderDestroy(t) \/ Delete(t)

\* One thread loads the cell's handle and waits for the cell to hold another
\* one; the other thread constructs the cell, stores a handle once and then
\* notifies all; every thread may lock and unlock the cell at any time.
ValueWaitNext ==
    \/ \E i \in Slots : \/ Make(Notifier, i) \/ CellCtor(Notifier, i)
                         \/ Load(Waiter, i) \/ WaitOld(Waiter, i)
    \/ NotifierStore \/ NotifierAnnounce
    \/ \E t \in Threads : \/ Lock(t) \/ Unlock(t) \/ SpuriousWake(t)
                           \/ ValueWaitStep(t)

\* Every thread is scheduled fairly inside an operation it has begun; a
\* blocked std::atomic::wait is woken by a notification, a spurious wake-up
\* is possible and not promised.
ValueWaitSpec ==
    /\ Init /\ [][ValueWaitNext]_vars
    /\ \A t \in Threads : WF_vars(ValueWaitStep(t))

\* C40: wait(old) returns only from a load of the word whose handle bits
\* are not old's control block, so not while the word differs from old's in
\* its tag only; and once a handle other than old has been stored and
\* notify_all has been called after it, a thread inside wait(old) returns.
ValueWait ==
    /\ [][ \A t \in Threads :
            (InWaitOld(t) /\ ~InWaitOld(t)')
               => (pc[t] = "wo_load" /\ Bits(storage) # AddrOf(reg[t].p)) ]_vars
    /\ \A t \in Threads :
          (/\ InWaitOld(t) /\ prog[Notifier] = 2
           /\ Bits(storage) # AddrOf(reg[t].p)) ~> ~InWaitOld(t)

\* The waiter is blocked in wait(old) on a word that carries old's handle
\* and a tag that another thread's lock() has put on it.
C40Witness ==
    /\ InWaitOld(Waiter) /\ Waiter \in parked
    /\ reg[Waiter].p # NULL /\ storage = reg[Waiter].v
    /\ TagOf(storage) = locked /\ Bits(storage) = AddrOf(reg[Waiter].p)

\* The waiter is still blocked in wait(old) after another handle has been
\* stored, and notify_all has not been called yet.
C40Stored ==
    /\ InWaitOld(Waiter) /\ Waiter \in parked /\ reg[Waiter].p # NULL
    /\ prog[Notifier] = 1 /\ Idle(Notifier)
    /\ Bits(storage) # AddrOf(reg[Waiter].p)

====
